---------------------------- MODULE Spec2Model ----------------------------
(***************************************************************************)
(* A model of the resume analyzer (Vipin8171/resume_analyzer): the         *)
(* extraction pipeline of app/services/extractor.py, the rule-based skill  *)
(* matcher of app/services/skill_matcher.py, the scorer of                 *)
(* app/utils/scoring.py and the hyperlink merge of app/routes/upload.py.   *)
(*                                                                         *)
(* A Python str is a sequence of characters; a character is a one-letter   *)
(* string ("a", ":", "\n"), or the name of its code point for the three    *)
(* non-ASCII characters the source uses ("U+00E2", "U+20AC", "U+00A2") and *)
(* for the capital of the first ("U+00C2"); the grave accent is "U+0060".  *)
(* A float score with two decimals is the integer number of hundredths.    *)
(***************************************************************************)
EXTENDS Integers, Sequences, FiniteSets, TLC

VARIABLES
    text,           \* the resume text handed to the function or handler under analysis
    results_dir,    \* what is at ./results, where save_extracted_data writes
    reports,        \* the number of extracted_<timestamp>.txt reports written so far
    hyperlinks,     \* upload_resume: the (display-text, URL) pairs the parser supplied
    prev,           \* the outcome of the previous extract_resume_info call on text
    resume_skills,  \* the skills of the resume handed to the scorer
    jd_skills,      \* compute_compatibility: its second argument
    jd,             \* analyze_resume_vs_jd: the job description
    ret,            \* what the function applied has returned (fn = "none": not yet called)
    calls,          \* concurrent extract_resume_info calls: of each its text, its position,
                    \* the name of its report and what it has returned
    clock,          \* datetime.now(), in seconds
    files           \* the files of ./results: of each name the reports written into it

vars == <<text, results_dir, reports, hyperlinks, prev, resume_skills, jd_skills, jd, ret,
          calls, clock, files>>

-----------------------------------------------------------------------------
(* Characters.                                                             *)

\* Code points 32..126 in order.
Printable == <<" ","!","\"","#","$","%","&","'","(",")","*","+",",","-",".","/","0","1","2","3","4","5","6","7","8","9",":",";","<","=",">","?","@","A","B","C","D","E","F","G","H","I","J","K","L","M","N","O","P","Q","R","S","T","U","V","W","X","Y","Z","[","\\","]","^","_","U+0060","a","b","c","d","e","f","g","h","i","j","k","l","m","n","o","p","q","r","s","t","u","v","w","x","y","z","{","|","}","~">>

UpperSeq == <<"A","B","C","D","E","F","G","H","I","J","K","L","M","N","O","P","Q","R","S","T","U","V","W","X","Y","Z">>
LowerSeq == <<"a","b","c","d","e","f","g","h","i","j","k","l","m","n","o","p","q","r","s","t","u","v","w","x","y","z">>

Range(s) == {s[i] : i \in DOMAIN s}

UpperChars == Range(UpperSeq)
LowerChars == Range(LowerSeq)
DigitChars == {"0","1","2","3","4","5","6","7","8","9"}
\* str.isspace() / regex \s, over the characters of the model
SpaceChars == {" ", "\t", "\n", "\r", "\f"}
\* a with circumflex, euro sign, cent sign (the bullet marker of the source is
\* these three), the capital of the first, and the bullet
NonAscii == {"U+00E2", "U+20AC", "U+00A2", "U+00C2", "U+2022"}
Chars == Range(Printable) \cup SpaceChars \cup NonAscii

\* ord(c)
OrdOf ==
    [c \in Chars |->
        CASE c = "\t" -> 9
          [] c = "\n" -> 10
          [] c = "\f" -> 12
          [] c = "\r" -> 13
          [] c = "U+00A2" -> 162
          [] c = "U+00C2" -> 194
          [] c = "U+00E2" -> 226
          [] c = "U+2022" -> 8226
          [] c = "U+20AC" -> 8364
          [] OTHER -> 31 + (CHOOSE i \in DOMAIN Printable : Printable[i] = c)]

\* str.lower() of one character
LowerOf ==
    [c \in Chars |->
        IF c \in UpperChars
        THEN LowerSeq[CHOOSE i \in DOMAIN UpperSeq : UpperSeq[i] = c]
        ELSE IF c = "U+00C2" THEN "U+00E2" ELSE c]

\* str.upper() of one character
UpperOf ==
    [c \in Chars |->
        IF c \in LowerChars
        THEN UpperSeq[CHOOSE i \in DOMAIN LowerSeq : LowerSeq[i] = c]
        ELSE IF c = "U+00E2" THEN "U+00C2" ELSE c]

IsUpperChar(c) == c \in UpperChars \cup {"U+00C2"}
IsLowerChar(c) == c \in LowerChars \cup {"U+00E2"}
IsAlpha(c) == IsUpperChar(c) \/ IsLowerChar(c)
IsDigit(c) == c \in DigitChars
IsSpace(c) == c \in SpaceChars
\* regex \w
IsWordChar(c) == IsAlpha(c) \/ IsDigit(c) \/ c = "_"

-----------------------------------------------------------------------------
(* Strings.                                                                *)

Min(S) == CHOOSE x \in S : \A y \in S : x <= y
Max(S) == CHOOSE x \in S : \A y \in S : x >= y

SeqsUpTo(S, n) == UNION {[1..k -> S] : k \in 0..n}

\* s.lower()
Lower(s) == [i \in DOMAIN s |-> LowerOf[s[i]]]

\* a < b for Python strings: by code point at the first difference, else by length
StrLess(a, b) ==
    LET n == IF Len(a) < Len(b) THEN Len(a) ELSE Len(b)
        diff == {i \in 1..n : a[i] # b[i]}
    IN  IF diff = {} THEN Len(a) < Len(b)
        ELSE LET k == Min(diff) IN OrdOf[a[k]] < OrdOf[b[k]]

\* sorted(S) of a set of strings
SortedSet(S) ==
    LET ranked == {<<Cardinality({y \in S : StrLess(y, x)}), x>> : x \in S}
    IN  [k \in 1..Cardinality(S) |-> (CHOOSE p \in ranked : p[1] = k - 1)[2]]

\* sorted(q) of a list of strings: equal strings keep their order
SortedList(q) ==
    LET ranked == {<<Cardinality({j \in DOMAIN q : StrLess(q[j], q[i]) \/ (q[j] = q[i] /\ j < i)}), i>> :
                       i \in DOMAIN q}
    IN  [k \in DOMAIN q |-> q[(CHOOSE p \in ranked : p[1] = k - 1)[2]]]

\* s.strip()
Strip(s) ==
    LET n == Len(s)
        first == CHOOSE i \in 1..n : ~IsSpace(s[i]) /\ \A j \in 1..(i - 1) : IsSpace(s[j])
        last == CHOOSE i \in 1..n : ~IsSpace(s[i]) /\ \A j \in (i + 1)..n : IsSpace(s[j])
    IN  IF \A i \in 1..n : IsSpace(s[i]) THEN <<>> ELSE SubSeq(s, first, last)

\* sub in s
Contains(s, sub) ==
    \E i \in 1..(Len(s) - Len(sub) + 1) : \A j \in 1..Len(sub) : s[i + j - 1] = sub[j]

\* s.startswith(p), s.endswith(p)
StartsWith(s, p) == Len(p) <= Len(s) /\ SubSeq(s, 1, Len(p)) = p
EndsWith(s, p) == Len(p) <= Len(s) /\ SubSeq(s, Len(s) - Len(p) + 1, Len(s)) = p

\* s.split(c) from position start on: the pieces between the occurrences of c
RECURSIVE SplitFrom(_, _, _)
SplitFrom(s, c, start) ==
    LET hits == {i \in start..Len(s) : s[i] = c}
    IN  IF hits = {} THEN <<SubSeq(s, start, Len(s))>>
        ELSE <<SubSeq(s, start, Min(hits) - 1)>> \o SplitFrom(s, c, Min(hits) + 1)

\* s.split('\n')
SplitNewline(s) == SplitFrom(s, "\n", 1)

\* s.splitlines(): a line ends at \n, \r, \r\n or \f; no empty last line
RECURSIVE SplitLinesFrom(_, _)
SplitLinesFrom(s, start) ==
    IF start > Len(s) THEN <<>>
    ELSE LET hits == {i \in start..Len(s) : s[i] \in {"\n", "\r", "\f"}}
         IN  IF hits = {} THEN <<SubSeq(s, start, Len(s))>>
             ELSE LET e == Min(hits)
                      after == IF s[e] = "\r" /\ e < Len(s) /\ s[e + 1] = "\n"
                               THEN e + 2 ELSE e + 1
                  IN  <<SubSeq(s, start, e - 1)>> \o SplitLinesFrom(s, after)

SplitLines(s) == SplitLinesFrom(s, 1)

\* s.split(): the maximal runs of non-whitespace characters
RECURSIVE SplitWsFrom(_, _)
SplitWsFrom(s, start) ==
    LET begins == {i \in start..Len(s) : ~IsSpace(s[i])}
    IN  IF begins = {} THEN <<>>
        ELSE LET b == Min(begins)
                 stops == {i \in b..Len(s) : IsSpace(s[i])}
                 e == IF stops = {} THEN Len(s) + 1 ELSE Min(stops)
             IN  <<SubSeq(s, b, e - 1)>> \o SplitWsFrom(s, e)

SplitWs(s) == SplitWsFrom(s, 1)

\* sep.join(parts)
RECURSIVE Join(_, _)
Join(parts, sep) ==
    IF parts = <<>> THEN <<>>
    ELSE IF Len(parts) = 1 THEN parts[1]
    ELSE parts[1] \o sep \o Join(Tail(parts), sep)

\* s.isupper(): some cased character, and no lowercase one
IsUpperStr(s) ==
    /\ \E i \in DOMAIN s : IsUpperChar(s[i])
    /\ \A i \in DOMAIN s : ~IsLowerChar(s[i])

\* s.title(): a letter after a non-letter is capitalized, after a letter lowered
Title(s) ==
    [i \in DOMAIN s |->
        IF ~IsAlpha(s[i]) THEN s[i]
        ELSE IF i = 1 \/ ~IsAlpha(s[i - 1]) THEN UpperOf[s[i]] ELSE LowerOf[s[i]]]

\* s[:n]
Prefix(s, n) == SubSeq(s, 1, IF Len(s) < n THEN Len(s) ELSE n)

IsSortedStrict(q) == \A i \in 1..(Len(q) - 1) : StrLess(q[i], q[i + 1])

-----------------------------------------------------------------------------
(* app/services/extractor.py: name extraction                              *)

NAME_SKIP_WORDS == <<
    <<"s","u","m","m","a","r","y">>,
    <<"o","b","j","e","c","t","i","v","e">>,
    <<"a","b","o","u","t">>,
    <<"p","h","o","n","e">>,
    <<"e","m","a","i","l">>,
    <<"l","i","n","k","e","d","i","n">>,
    <<"g","i","t","h","u","b">>
>>

\* the lines of extract_name_robust that the loop does not skip and that look
\* like a name: 1 to 5 words, more than 70% letters, spaces, hyphens, apostrophes
IsNameCandidate(line) ==
    /\ ~ \/ Contains(line, <<"@">>)
         \/ Contains(line, <<"h","t","t","p">>)
         \/ (Contains(line, <<"+">>) /\ Len(line) < 5)
    /\ ~(Len(line) > 100)
    /\ ~(IsUpperStr(line) /\ \E i \in DOMAIN line : IsDigit(line[i]))
    /\ ~ \E k \in DOMAIN NAME_SKIP_WORDS : Contains(Lower(line), NAME_SKIP_WORDS[k])
    /\ LET words == SplitWs(line)
           alpha_count == Cardinality({i \in DOMAIN line :
                               IsAlpha(line[i]) \/ IsSpace(line[i]) \/ line[i] \in {"-", "'"}})
       IN  /\ 1 <= Len(words) /\ Len(words) <= 5
           /\ 10 * alpha_count > 7 * Len(line)

\* [l.strip() for l in text.splitlines() if l.strip()]
StrippedNonBlankLines(t) ==
    LET ls == SplitLines(t)
        stripped == [i \in DOMAIN ls |-> Strip(ls[i])]
    IN  SelectSeq(stripped, LAMBDA l : l # <<>>)

\* the extraction with the loop over all the lines, not over lines[:15]
extract_name_all_lines(t) ==
    LET lines == StrippedNonBlankLines(t)
        name_candidates == SelectSeq(lines, IsNameCandidate)
    IN  IF name_candidates = <<>> THEN <<>>
        ELSE IF Len(name_candidates) >= 2
             THEN LET first_candidate == name_candidates[1]
                      second_candidate == name_candidates[2]
                      combined == Strip(first_candidate \o <<" ">> \o second_candidate)
                  IN  IF /\ Len(SplitWs(first_candidate)) <= 3
                         /\ Len(SplitWs(second_candidate)) <= 3
                         /\ Len(SplitWs(combined)) <= 5
                      THEN Title(combined)
                      ELSE Title(name_candidates[1])
             ELSE Title(name_candidates[1])

extract_name_robust(t) ==
    LET lines == StrippedNonBlankLines(t)
        name_candidates == SelectSeq(Prefix(lines, 15), IsNameCandidate)
    IN  IF lines = <<>> THEN <<>>
        ELSE IF name_candidates = <<>> THEN <<>>
        ELSE IF Len(name_candidates) >= 2
             THEN LET first_candidate == name_candidates[1]
                      second_candidate == name_candidates[2]
                      combined == Strip(first_candidate \o <<" ">> \o second_candidate)
                  IN  IF /\ Len(SplitWs(first_candidate)) <= 3
                         /\ Len(SplitWs(second_candidate)) <= 3
                         /\ Len(SplitWs(combined)) <= 5
                      THEN Title(combined)
                      ELSE Title(name_candidates[1])
             ELSE Title(name_candidates[1])

-----------------------------------------------------------------------------
(* app/services/extractor.py: section segmentation                         *)

\* the dictionary in its insertion order, which is the order of the header scan
SECTION_KEYWORDS == <<
    [name |-> "contact", keywords |-> <<
        <<"c","o","n","t","a","c","t">>,
        <<"p","h","o","n","e">>,
        <<"e","m","a","i","l">>,
        <<"l","i","n","k","e","d","i","n">>,
        <<"g","i","t","h","u","b">>,
        <<"a","d","d","r","e","s","s">>,
        <<"l","o","c","a","t","i","o","n">>
    >>],
    [name |-> "summary", keywords |-> <<
        <<"s","u","m","m","a","r","y">>,
        <<"o","b","j","e","c","t","i","v","e">>,
        <<"p","r","o","f","i","l","e">>,
        <<"a","b","o","u","t">>,
        <<"p","r","o","f","e","s","s","i","o","n","a","l"," ","s","u","m","m","a","r","y">>,
        <<"e","x","e","c","u","t","i","v","e"," ","s","u","m","m","a","r","y">>
    >>],
    [name |-> "education", keywords |-> <<
        <<"e","d","u","c","a","t","i","o","n">>,
        <<"d","e","g","r","e","e">>,
        <<"u","n","i","v","e","r","s","i","t","y">>,
        <<"c","o","l","l","e","g","e">>,
        <<"b",".","t","e","c","h">>,
        <<"b","t","e","c","h">>,
        <<"b","a","c","h","e","l","o","r">>,
        <<"m","a","s","t","e","r">>,
        <<"m",".","t","e","c","h">>,
        <<"m","t","e","c","h">>,
        <<"c","e","r","t","i","f","i","c","a","t","i","o","n">>,
        <<"c","o","u","r","s","e">>,
        <<"g","p","a">>,
        <<"c","g","p","a">>
    >>],
    [name |-> "experience", keywords |-> <<
        <<"e","x","p","e","r","i","e","n","c","e">>,
        <<"w","o","r","k">>,
        <<"e","m","p","l","o","y","m","e","n","t">>,
        <<"p","r","o","f","e","s","s","i","o","n","a","l">>,
        <<"j","o","b">>,
        <<"p","o","s","i","t","i","o","n">>,
        <<"w","o","r","k","e","d"," ","a","s">>,
        <<"w","o","r","k","e","d"," ","o","n">>
    >>],
    [name |-> "projects", keywords |-> <<
        <<"p","r","o","j","e","c","t","s">>,
        <<"p","r","o","j","e","c","t">>,
        <<"p","o","r","t","f","o","l","i","o">>,
        <<"c","a","p","s","t","o","n","e">>,
        <<"c","a","s","e"," ","s","t","u","d","y">>,
        <<"a","s","s","i","g","n","m","e","n","t">>
    >>],
    [name |-> "skills", keywords |-> <<
        <<"s","k","i","l","l","s">>,
        <<"t","e","c","h","n","i","c","a","l">>,
        <<"t","e","c","h","n","o","l","o","g","i","e","s">>,
        <<"c","o","m","p","e","t","e","n","c","i","e","s">>,
        <<"e","x","p","e","r","t","i","s","e">>,
        <<"p","r","o","f","i","c","i","e","n","t">>,
        <<"p","r","o","g","r","a","m","m","i","n","g">>,
        <<"t","o","o","l","s">>
    >>],
    [name |-> "achievements", keywords |-> <<
        <<"a","c","h","i","e","v","e","m","e","n","t","s">>,
        <<"a","w","a","r","d","s">>,
        <<"r","e","c","o","g","n","i","t","i","o","n","s">>,
        <<"p","u","b","l","i","c","a","t","i","o","n","s">>,
        <<"c","e","r","t","i","f","i","c","a","t","i","o","n","s">>,
        <<"h","o","n","o","r","s">>,
        <<"a","c","c","o","m","p","l","i","s","h","m","e","n","t","s">>
    >>]
>>

SectionNames == {SECTION_KEYWORDS[k].name : k \in DOMAIN SECTION_KEYWORDS} \cup {"other"}

\* .get(section, []) of the dictionary
KeywordsOf(section) ==
    IF \E k \in DOMAIN SECTION_KEYWORDS : SECTION_KEYWORDS[k].name = section
    THEN SECTION_KEYWORDS[CHOOSE k \in DOMAIN SECTION_KEYWORDS :
                              SECTION_KEYWORDS[k].name = section].keywords
    ELSE <<>>

detect_section_start(line, section) ==
    LET line_lower == Strip(Lower(line))
        keywords == KeywordsOf(section)
    IN  IF ~Contains(line, <<":">>) /\ ~EndsWith(line_lower, <<"s">>) THEN FALSE
        ELSE \E k \in DOMAIN keywords : Contains(line_lower, keywords[k])

\* the inner for loop without its break: the last section, in the order of
\* the dictionary, whose header the line is
DetectedSectionLast(line) ==
    LET hits == {k \in DOMAIN SECTION_KEYWORDS :
                     detect_section_start(line, SECTION_KEYWORDS[k].name)}
    IN  IF hits = {} THEN "" ELSE SECTION_KEYWORDS[Max(hits)].name

\* the inner for loop of split_resume_by_sections: the first section, in the
\* order of the dictionary, whose header the line is; "" for None
DetectedSection(line) ==
    LET hits == {k \in DOMAIN SECTION_KEYWORDS :
                     detect_section_start(line, SECTION_KEYWORDS[k].name)}
    IN  IF hits = {} THEN "" ELSE SECTION_KEYWORDS[Min(hits)].name

\* '\n'.join(current_content).strip()
SectionText(current_content) == Strip(Join(current_content, <<"\n">>))

\* one pass of the outer for loop: the state is the dictionary built so far,
\* the current section and the lines accumulated for it
SplitStep(st, line) ==
    LET detected_section == DetectedSection(line)
    IN  IF detected_section # ""
        THEN [sections |-> [st.sections EXCEPT
                               ![st.current_section] = SectionText(st.current_content)],
              current_section |-> detected_section,
              current_content |-> <<line>>]
        ELSE [st EXCEPT !.current_content = Append(st.current_content, line)]

RECURSIVE SplitLoop(_, _, _)
SplitLoop(st, lines, i) ==
    IF i > Len(lines) THEN st ELSE SplitLoop(SplitStep(st, lines[i]), lines, i + 1)

split_resume_by_sections(t) ==
    LET start == [sections |-> [n \in SectionNames |-> <<>>],
                  current_section |-> "contact",
                  current_content |-> <<>>]
        final == SplitLoop(start, SplitNewline(t), 1)
    IN  [final.sections EXCEPT
            ![final.current_section] = SectionText(final.current_content)]

-----------------------------------------------------------------------------
(* The regular expressions of app/services/extractor.py.  A pattern is a   *)
(* tree: a character class ("set", or "nset" for a negated one), a         *)
(* concatenation ("cat"), an alternation ("alt") or a greedy repetition    *)
(* ("rep", hi = -1 for no upper limit).  MatchEnds lists, in the order in  *)
(* which the backtracking matcher of re tries them, the positions at which *)
(* a match that starts at i can end; the first one is the match re takes.  *)

ReSet(S) == [k |-> "set", chars |-> S]
ReNotSet(S) == [k |-> "nset", chars |-> S]
ReCat(parts) == [k |-> "cat", parts |-> parts]
ReAlt(parts) == [k |-> "alt", parts |-> parts]
ReRep(of, lo, hi) == [k |-> "rep", of |-> of, lo |-> lo, hi |-> hi]
ReOpt(of) == ReRep(of, 0, 1)
ReLit(str) == ReCat([i \in DOMAIN str |-> ReSet({str[i]})])

RECURSIVE MatchEnds(_, _, _), CatEnds(_, _, _, _), CatOver(_, _, _, _, _),
          AltEnds(_, _, _, _), RepEnds(_, _, _, _), RepOver(_, _, _, _, _)

MatchEnds(re, s, i) ==
    CASE re.k = "set" -> IF i <= Len(s) /\ s[i] \in re.chars THEN <<i + 1>> ELSE <<>>
      [] re.k = "nset" -> IF i <= Len(s) /\ s[i] \notin re.chars THEN <<i + 1>> ELSE <<>>
      [] re.k = "cat" -> CatEnds(re.parts, 1, s, i)
      [] re.k = "alt" -> AltEnds(re.parts, 1, s, i)
      [] re.k = "rep" -> RepEnds(re, s, i, 0)

\* parts[n..] matched from i on
CatEnds(parts, n, s, i) ==
    IF n > Len(parts) THEN <<i>>
    ELSE CatOver(MatchEnds(parts[n], s, i), 1, parts, n, s)

CatOver(ends, e, parts, n, s) ==
    IF e > Len(ends) THEN <<>>
    ELSE CatEnds(parts, n + 1, s, ends[e]) \o CatOver(ends, e + 1, parts, n, s)

AltEnds(parts, n, s, i) ==
    IF n > Len(parts) THEN <<>>
    ELSE MatchEnds(parts[n], s, i) \o AltEnds(parts, n + 1, s, i)

\* greedy: one more repetition is tried before stopping after done repetitions
RepEnds(re, s, i, done) ==
    LET more == IF re.hi = -1 \/ done < re.hi
                THEN RepOver(MatchEnds(re.of, s, i), 1, re, s, done)
                ELSE <<>>
    IN  more \o (IF done >= re.lo THEN <<i>> ELSE <<>>)

RepOver(ends, e, re, s, done) ==
    IF e > Len(ends) THEN <<>>
    ELSE RepEnds(re, s, ends[e], done + 1) \o RepOver(ends, e + 1, re, s, done)

\* pattern.search(s) from position from on: the leftmost match, [lo, hi) of s
ReSearchFrom(re, s, from) ==
    LET starts == {i \in from..(Len(s) + 1) : MatchEnds(re, s, i) # <<>>}
    IN  IF starts = {} THEN [found |-> FALSE, lo |-> 0, hi |-> 0]
        ELSE LET i == Min(starts)
             IN  [found |-> TRUE, lo |-> i, hi |-> MatchEnds(re, s, i)[1]]

\* match.group(0) if match else ""
ReSearchText(re, s) ==
    LET m == ReSearchFrom(re, s, 1)
    IN  IF m.found THEN SubSeq(s, m.lo, m.hi - 1) ELSE <<>>

\* pattern.findall(s) of a pattern without groups that matches no empty string
RECURSIVE ReFindAllFrom(_, _, _)
ReFindAllFrom(re, s, from) ==
    LET m == ReSearchFrom(re, s, from)
    IN  IF ~m.found THEN <<>>
        ELSE <<SubSeq(s, m.lo, m.hi - 1)>> \o ReFindAllFrom(re, s, m.hi)

AlnumChars == UpperChars \cup LowerChars \cup DigitChars
PhoneSepChars == SpaceChars \cup {".", "-"}

\* [a-zA-Z0-9_.+-]+@[a-zA-Z0-9-]+\.[a-zA-Z0-9-.]+
EMAIL_RE ==
    ReCat(<<ReRep(ReSet(AlnumChars \cup {"_", ".", "+", "-"}), 1, -1),
            ReSet({"@"}),
            ReRep(ReSet(AlnumChars \cup {"-"}), 1, -1),
            ReSet({"."}),
            ReRep(ReSet(AlnumChars \cup {"-", "."}), 1, -1)>>)

\* (?:\+\d{1,3}[\s.-]?)?(?:\d{2,4}[\s.-]?)?\d{3}[\s.-]?\d{3,4}[\s.-]?\d{3,4}
\* |\+\d{1,3}\s?\d{6,14}
PHONE_RE ==
    ReAlt(<<
        ReCat(<<ReOpt(ReCat(<<ReSet({"+"}), ReRep(ReSet(DigitChars), 1, 3),
                              ReOpt(ReSet(PhoneSepChars))>>)),
                ReOpt(ReCat(<<ReRep(ReSet(DigitChars), 2, 4),
                              ReOpt(ReSet(PhoneSepChars))>>)),
                ReRep(ReSet(DigitChars), 3, 3),
                ReOpt(ReSet(PhoneSepChars)),
                ReRep(ReSet(DigitChars), 3, 4),
                ReOpt(ReSet(PhoneSepChars)),
                ReRep(ReSet(DigitChars), 3, 4)>>),
        ReCat(<<ReSet({"+"}), ReRep(ReSet(DigitChars), 1, 3),
                ReOpt(ReSet(SpaceChars)),
                ReRep(ReSet(DigitChars), 6, 14)>>)
    >>)

\* https?://[^\s]+
URL_RE ==
    ReCat(<<ReLit(<<"h","t","t","p">>), ReOpt(ReSet({"s"})), ReLit(<<":","/","/">>),
            ReRep(ReNotSet(SpaceChars), 1, -1)>>)

extract_email(t) == ReSearchText(EMAIL_RE, t)

extract_phone(t) == ReSearchText(PHONE_RE, t)

-----------------------------------------------------------------------------
(* app/services/extractor.py: profiles                                     *)

\* the dictionary in its insertion order, which is the order label_url scans
PROFILE_LABELS == <<
    [key |-> <<"l","i","n","k","e","d","i","n">>, lbl |-> <<"L","i","n","k","e","d","I","n">>],
    [key |-> <<"g","i","t","h","u","b">>, lbl |-> <<"G","i","t","H","u","b">>],
    [key |-> <<"p","o","r","t","f","o","l","i","o">>, lbl |-> <<"P","o","r","t","f","o","l","i","o">>],
    [key |-> <<"m","e","d","i","u","m">>, lbl |-> <<"M","e","d","i","u","m">>],
    [key |-> <<"k","a","g","g","l","e">>, lbl |-> <<"K","a","g","g","l","e">>],
    [key |-> <<"l","e","e","t","c","o","d","e">>, lbl |-> <<"L","e","e","t","C","o","d","e">>],
    [key |-> <<"c","o","d","e","f","o","r","c","e","s">>, lbl |-> <<"C","o","d","e","f","o","r","c","e","s">>],
    [key |-> <<"g","i","t","l","a","b">>, lbl |-> <<"G","i","t","L","a","b">>],
    [key |-> <<"b","i","t","b","u","c","k","e","t">>, lbl |-> <<"B","i","t","b","u","c","k","e","t">>]
>>

S_Website == <<"W","e","b","s","i","t","e">>

\* the label as it would be if the last keyword of the table that occurs won
label_url_last_keyword(url) ==
    LET u == Lower(url)
        hits == {k \in DOMAIN PROFILE_LABELS : Contains(u, PROFILE_LABELS[k].key)}
    IN  IF hits = {} THEN S_Website ELSE PROFILE_LABELS[Max(hits)].lbl

label_url(url) ==
    LET u == Lower(url)
        hits == {k \in DOMAIN PROFILE_LABELS : Contains(u, PROFILE_LABELS[k].key)}
    IN  IF hits = {} THEN S_Website ELSE PROFILE_LABELS[Min(hits)].lbl

OnlineProfile(label, url) == [label |-> label, url |-> url]

extract_profiles_from_text(t) ==
    LET urls == ReFindAllFrom(URL_RE, t, 1)
    IN  [i \in DOMAIN urls |-> OnlineProfile(label_url(urls[i]), urls[i])]

-----------------------------------------------------------------------------
(* app/services/extractor.py: skill extraction                             *)

TECH_WORDS == <<
    <<"p","y","t","h","o","n">>,
    <<"j","a","v","a">>,
    <<"c","+","+">>,
    <<"c","#">>,
    <<"j","a","v","a","s","c","r","i","p","t">>,
    <<"t","y","p","e","s","c","r","i","p","t">>,
    <<"g","o">>,
    <<"r","u","s","t">>,
    <<"r">>,
    <<"s","c","a","l","a">>,
    <<"k","o","t","l","i","n">>,
    <<"f","a","s","t","a","p","i">>,
    <<"f","l","a","s","k">>,
    <<"d","j","a","n","g","o">>,
    <<"s","p","r","i","n","g">>,
    <<"n","o","d","e","j","s">>,
    <<"e","x","p","r","e","s","s">>,
    <<"n","e","x","t",".","j","s">>,
    <<"n","e","x","t","j","s">>,
    <<"v","u","e",".","j","s">>,
    <<"n","u","x","t">>,
    <<"p","a","n","d","a","s">>,
    <<"n","u","m","p","y">>,
    <<"s","c","i","p","y">>,
    <<"s","c","i","k","i","t","-","l","e","a","r","n">>,
    <<"s","k","l","e","a","r","n">>,
    <<"m","a","t","p","l","o","t","l","i","b">>,
    <<"s","e","a","b","o","r","n">>,
    <<"p","l","o","t","l","y">>,
    <<"s","t","a","t","s","m","o","d","e","l","s">>,
    <<"x","g","b","o","o","s","t">>,
    <<"l","i","g","h","t","g","b","m">>,
    <<"c","a","t","b","o","o","s","t">>,
    <<"e","d","a">>,
    <<"s","t","a","t","i","s","t","i","c","a","l"," ","a","n","a","l","y","s","i","s">>,
    <<"s","q","l">>,
    <<"m","y","s","q","l">>,
    <<"p","o","s","t","g","r","e","s">>,
    <<"p","o","s","t","g","r","e","s","q","l">>,
    <<"m","o","n","g","o","d","b">>,
    <<"r","e","d","i","s">>,
    <<"c","a","s","s","a","n","d","r","a">>,
    <<"d","y","n","a","m","o","d","b">>,
    <<"e","l","a","s","t","i","c","s","e","a","r","c","h">>,
    <<"a","w","s">>,
    <<"a","z","u","r","e">>,
    <<"g","c","p">>,
    <<"d","o","c","k","e","r">>,
    <<"k","u","b","e","r","n","e","t","e","s">>,
    <<"j","e","n","k","i","n","s">>,
    <<"g","i","t","l","a","b">>,
    <<"g","i","t","h","u","b">>,
    <<"c","i","r","c","l","e","c","i">>,
    <<"s","p","a","r","k">>,
    <<"h","a","d","o","o","p">>,
    <<"k","a","f","k","a">>,
    <<"a","i","r","f","l","o","w">>,
    <<"d","b","t">>,
    <<"h","i","v","e">>,
    <<"p","r","e","s","t","o">>,
    <<"p","y","t","o","r","c","h">>,
    <<"t","e","n","s","o","r","f","l","o","w">>,
    <<"k","e","r","a","s">>,
    <<"t","o","r","c","h">>,
    <<"o","n","n","x">>,
    <<"t","r","a","n","s","f","o","r","m","e","r","s">>,
    <<"h","u","g","g","i","n","g"," ","f","a","c","e">>,
    <<"b","e","r","t">>,
    <<"g","p","t">>,
    <<"l","l","m">>,
    <<"l","a","n","g","c","h","a","i","n">>,
    <<"f","a","i","s","s">>,
    <<"r","a","g">>,
    <<"l","l","a","m","a">>,
    <<"o","p","e","n","a","i">>,
    <<"s","p","a","c","y">>,
    <<"n","l","t","k">>,
    <<"g","e","n","s","i","m">>,
    <<"t","e","x","t","b","l","o","b">>,
    <<"t","o","k","e","n","i","z","a","t","i","o","n">>,
    <<"n","l","p">>,
    <<"n","e","r">>,
    <<"s","e","n","t","i","m","e","n","t">>,
    <<"o","p","e","n","c","v">>,
    <<"o","p","e","n","c","v","-","p","y","t","h","o","n">>,
    <<"y","o","l","o">>,
    <<"y","o","l","o","v","8">>,
    <<"y","o","l","o","v","5">>,
    <<"y","o","l","o","v","3">>,
    <<"c","n","n">>,
    <<"d","e","e","p","s","o","r","t">>,
    <<"r","e","a","c","t">>,
    <<"v","u","e">>,
    <<"a","n","g","u","l","a","r">>,
    <<"s","v","e","l","t","e">>,
    <<"h","t","m","l">>,
    <<"c","s","s">>,
    <<"s","a","s","s">>,
    <<"b","o","o","t","s","t","r","a","p">>,
    <<"t","a","i","l","w","i","n","d">>,
    <<"d","3",".","j","s">>,
    <<"g","i","t">>,
    <<"j","u","p","y","t","e","r">>,
    <<"n","o","t","e","b","o","o","k">>,
    <<"j","u","p","y","t","e","r"," ","n","o","t","e","b","o","o","k">>,
    <<"j","i","r","a">>,
    <<"c","o","n","f","l","u","e","n","c","e">>,
    <<"n","o","t","i","o","n">>,
    <<"l","i","n","u","x">>,
    <<"b","a","s","h">>,
    <<"s","h","e","l","l">>,
    <<"p","o","w","e","r","s","h","e","l","l">>,
    <<"w","i","n","d","o","w","s">>,
    <<"m","a","c">>,
    <<"m","a","c","o","s">>,
    <<"p","o","w","e","r"," ","b","i">>,
    <<"p","o","w","e","r","b","i">>,
    <<"t","a","b","l","e","a","u">>,
    <<"l","o","o","k","e","r">>,
    <<"q","l","i","k">>,
    <<"e","x","c","e","l">>,
    <<"v","b","a">>,
    <<"r","e","g","r","e","s","s","i","o","n">>,
    <<"c","l","a","s","s","i","f","i","c","a","t","i","o","n">>,
    <<"r","a","n","d","o","m"," ","f","o","r","e","s","t">>,
    <<"l","s","t","m">>,
    <<"r","n","n">>,
    <<"c","n","n">>,
    <<"g","a","n">>,
    <<"m","l","o","p","s">>,
    <<"t","i","m","e"," ","s","e","r","i","e","s">>,
    <<"f","o","r","e","c","a","s","t","i","n","g">>,
    <<"c","l","u","s","t","e","r","i","n","g">>,
    <<"p","c","a">>,
    <<"k","m","e","a","n","s">>,
    <<"e","n","s","e","m","b","l","e">>,
    <<"c","r","o","s","s"," ","v","a","l","i","d","a","t","i","o","n">>,
    <<"f","i","n","e","-","t","u","n","i","n","g">>,
    <<"p","r","o","m","p","t"," ","e","n","g","i","n","e","e","r","i","n","g">>,
    <<"v","e","c","t","o","r"," ","d","a","t","a","b","a","s","e","s">>,
    <<"e","m","b","e","d","d","i","n","g","s">>,
    <<"r","e","t","r","i","e","v","a","l"," ","a","u","g","m","e","n","t","e","d">>
>>

\* regex \b at the gap before position p: exactly one of the two neighbours
\* is a word character (the ends of the string count as non-word)
WordBoundaryAt(s, p) ==
    LET before == p > 1 /\ p - 1 <= Len(s) /\ IsWordChar(s[p - 1])
        after == p >= 1 /\ p <= Len(s) /\ IsWordChar(s[p])
    IN  before # after

\* the search as it would be without the two \b of the pattern
SearchSubstring(s, tech) ==
    \E i \in 1..(Len(s) - Len(tech) + 1) : SubSeq(s, i, i + Len(tech) - 1) = tech

\* re.search(r'\b' + re.escape(tech) + r'\b', s)
SearchWord(s, tech) ==
    \E i \in 1..(Len(s) - Len(tech) + 1) :
        /\ s[i] = tech[1]
        /\ SubSeq(s, i, i + Len(tech) - 1) = tech
        /\ WordBoundaryAt(s, i)
        /\ WordBoundaryAt(s, i + Len(tech))

extract_skills_from_text(t) ==
    LET text_lower == Lower(t)
        detected_skills == {TECH_WORDS[k] : k \in {j \in DOMAIN TECH_WORDS :
                                                     SearchWord(text_lower, TECH_WORDS[j])}}
    IN  SortedSet(detected_skills)

-----------------------------------------------------------------------------
(* app/services/extractor.py: projects and achievements                    *)

\* the three characters the source spells its bullet marker with
BULLET == <<"U+00E2","U+20AC","U+00A2">>
S_project_colon == <<"p","r","o","j","e","c","t",":">>
PROJECT_MARKERS == <<S_project_colon, BULLET \o <<" ">> >>

\* s.replace(old, new), old not empty: the occurrences from left to right
RECURSIVE Replace(_, _, _)
Replace(s, old, new) ==
    LET hits == {i \in 1..(Len(s) - Len(old) + 1) : SubSeq(s, i, i + Len(old) - 1) = old}
    IN  IF hits = {} THEN s
        ELSE LET i == Min(hits)
             IN  SubSeq(s, 1, i - 1) \o new
                     \o Replace(SubSeq(s, i + Len(old), Len(s)), old, new)

\* the condition of the if in the loop of extract_projects_from_text
IsProjectLine(line) ==
    \/ \E k \in DOMAIN PROJECT_MARKERS : Contains(Lower(line), PROJECT_MARKERS[k])
    \/ /\ line # <<>>
       /\ ~IsDigit(line[1])
       /\ Len(line) > 5
       /\ \E k \in 1..10 : Contains(Lower(line), Lower(TECH_WORDS[k]))

\* for tech in techs: project_name = project_name.lower().replace(tech.lower(), "").strip()
RECURSIVE RemoveTechs(_, _, _)
RemoveTechs(project_name, techs, k) ==
    IF k > Len(techs) THEN project_name
    ELSE RemoveTechs(Strip(Replace(Lower(project_name), Lower(techs[k]), <<>>)), techs, k + 1)

\* the body of the if: the projects (none or one) that a project line adds
ProjectsOfLine(line) ==
    LET techs == SelectSeq(TECH_WORDS, LAMBDA t : Contains(Lower(line), Lower(t)))
        without_techs == RemoveTechs(line, techs, 1)
        without_markers == Strip(Replace(Replace(without_techs, BULLET, <<>>),
                                         S_project_colon, <<>>))
        project_name == Strip(SplitFrom(without_markers, "(", 1)[1])
    IN  IF project_name # <<>> /\ Len(project_name) > 3
        THEN <<[name |-> Prefix(project_name, 150),
                technologies |-> Prefix(SortedSet(Range(techs)), 10)]>>
        ELSE <<>>

RECURSIVE ProjectsFrom(_, _)
ProjectsFrom(lines, i) ==
    IF i > Len(lines) THEN <<>>
    ELSE LET line == Strip(lines[i])
         IN  (IF IsProjectLine(line) THEN ProjectsOfLine(line) ELSE <<>>)
                 \o ProjectsFrom(lines, i + 1)

extract_projects_from_text(t) == Prefix(ProjectsFrom(SplitNewline(t), 1), 10)

\* line.lstrip(chars)
LStripChars(s, chars) ==
    LET keep == {i \in DOMAIN s : s[i] \notin chars}
    IN  IF keep = {} THEN <<>> ELSE SubSeq(s, Min(keep), Len(s))

AchievementMarkerChars == Range(BULLET) \cup {"-", ".", " "} \cup DigitChars

\* the loop of extract_achievements_from_text from line i on.  line[0] of an
\* empty line raises IndexError, and both startswith tests are false of an
\* empty line, so the loop raises at the first line that strips to nothing.
RECURSIVE AchievementsFrom(_, _, _)
AchievementsFrom(lines, i, achievements) ==
    IF i > Len(lines) THEN [raised |-> "", value |-> Prefix(achievements, 10)]
    ELSE LET line == Strip(lines[i])
         IN  IF StartsWith(line, BULLET) \/ StartsWith(line, <<"-">>)
             THEN LET achievement == Strip(LStripChars(line, AchievementMarkerChars))
                  IN  AchievementsFrom(lines, i + 1,
                          IF achievement # <<>> /\ Len(achievement) > 10
                          THEN Append(achievements, Prefix(achievement, 200))
                          ELSE achievements)
             ELSE IF line = <<>> THEN [raised |-> "IndexError", value |-> <<>>]
             ELSE IF IsDigit(line[1]) /\ Contains(Prefix(line, 3), <<".">>)
             THEN LET achievement == Strip(LStripChars(line, AchievementMarkerChars))
                  IN  AchievementsFrom(lines, i + 1,
                          IF achievement # <<>> /\ Len(achievement) > 10
                          THEN Append(achievements, Prefix(achievement, 200))
                          ELSE achievements)
             ELSE AchievementsFrom(lines, i + 1, achievements)

\* [raised |-> the exception that escapes ("" for none), value |-> the list returned]
extract_achievements_from_text(t) == AchievementsFrom(SplitNewline(t), 1, <<>>)

-----------------------------------------------------------------------------
(* app/services/extractor.py: extract_resume_info up to the Resume object  *)

\* None
None == <<"None">>

\* the fallback of the experience summary: lines[1][:300] of the stripped
\* lines longer than 20 characters when there are more than two of them
SummaryFallback(t) ==
    LET ls == SplitNewline(t)
        stripped == [i \in DOMAIN ls |-> Strip(ls[i])]
        lines == SelectSeq(stripped, LAMBDA l : l # <<>> /\ Len(l) > 20)
    IN  IF Len(lines) > 2 THEN Prefix(lines[2], 300) ELSE <<>>

S_NOT_EXTRACTED == <<"N","O","T"," ","E","X","T","R","A","C","T","E","D">>

\* the object without the defaults of lines 452 and 459: the name and the
\* achievements as they were extracted
ResumeWithoutDefaults(name, email, phone, profiles, summary, fallback, projects, skills, achievements) ==
    IF achievements.raised # ""
    THEN [raised |-> achievements.raised, value |-> None]
    ELSE [raised |-> "",
          value |-> [name |-> name,
                     email |-> email,
                     phone |-> phone,
                     online_profiles |-> profiles,
                     experience_summary |->
                         IF summary # <<>> THEN summary
                         ELSE IF fallback # <<>> THEN fallback ELSE None,
                     projects |-> projects,
                     skills |-> skills,
                     achievements |-> achievements.value]]

\* lines 449 to 460: Resume(name=..., ...) from the extracted parts, unless
\* the extraction of the achievements has raised;
\* [raised |-> the exception that escapes ("" for none), value |-> the object]
Resume(name, email, phone, profiles, summary, fallback, projects, skills, achievements) ==
    IF achievements.raised # ""
    THEN [raised |-> achievements.raised, value |-> None]
    ELSE [raised |-> "",
          value |-> [name |-> IF name # <<>> THEN name ELSE S_NOT_EXTRACTED,
                     email |-> email,
                     phone |-> phone,
                     online_profiles |-> profiles,
                     experience_summary |->
                         IF summary # <<>> THEN summary
                         ELSE IF fallback # <<>> THEN fallback ELSE None,
                     projects |-> projects,
                     skills |-> skills,
                     achievements |->
                         IF achievements.value # <<>> THEN achievements.value ELSE None]]

\* lines 430 to 450: the parts, extracted from the text and from its sections
ExtractParts(t, sections) ==
    Resume(extract_name_robust(t),
           extract_email(t),
           extract_phone(t),
           extract_profiles_from_text(t),
           Strip(sections["summary"]),
           SummaryFallback(t),
           extract_projects_from_text(sections["projects"]),
           extract_skills_from_text(t),
           extract_achievements_from_text(sections["achievements"]))

\* lines 430 to 461, with sections = split_resume_by_sections(text)
BuildResume(t) == ExtractParts(t, split_resume_by_sections(t))

-----------------------------------------------------------------------------
(* app/utils/text_cleaner.py and app/services/skill_matcher.py             *)

NormalizeKeep == LowerChars \cup DigitChars \cup {"+", "#", "."} \cup SpaceChars

\* lower; every character outside [a-z0-9+#.\s] becomes a space; runs of
\* whitespace become one space and the ends are stripped, which leaves the
\* whitespace-separated pieces joined by single spaces
normalize_text(t) ==
    LET low == Lower(t)
        spaced == [i \in DOMAIN low |-> IF low[i] \in NormalizeKeep THEN low[i] ELSE " "]
    IN  Join(SplitWs(spaced), <<" ">>)

DEFAULT_SKILL_VOCAB == <<
    <<"p","y","t","h","o","n">>,
    <<"f","a","s","t","a","p","i">>,
    <<"f","l","a","s","k">>,
    <<"d","j","a","n","g","o">>,
    <<"n","l","p">>,
    <<"s","p","a","c","y">>,
    <<"n","l","t","k">>,
    <<"b","e","r","t">>,
    <<"t","r","a","n","s","f","o","r","m","e","r","s">>,
    <<"p","a","n","d","a","s">>,
    <<"n","u","m","p","y">>,
    <<"s","q","l">>,
    <<"m","o","n","g","o","d","b">>,
    <<"p","o","s","t","g","r","e","s">>,
    <<"a","w","s">>,
    <<"d","o","c","k","e","r">>,
    <<"k","u","b","e","r","n","e","t","e","s">>,
    <<"s","p","a","r","k">>
>>

\* skill_matcher.extract_skills_from_text
matcher_extract_skills_from_text(t) ==
    LET tokens == Range(SplitWs(normalize_text(t)))
    IN  SortedSet({DEFAULT_SKILL_VOCAB[k] : k \in {j \in DOMAIN DEFAULT_SKILL_VOCAB :
                                                     DEFAULT_SKILL_VOCAB[j] \in tokens}})

-----------------------------------------------------------------------------
(* app/utils/scoring.py                                                    *)

\* round(10.0 * (m / d), 2) in hundredths, for 0 <= m <= d, 1 <= d <= 2000000.
\* When 1000*m/d is not halfway between two integers, the result is the
\* nearest one: the error of the two float operations is below 2^-49, far less
\* than the distance 1/(200*d) of 10*m/d from a halfway point.  When it is
\* halfway, round() decides by the side on which the float
\* Y = fl(10.0 * fl(m / d)) fell, and rounds half to even only when Y is the
\* halfway point itself.  The side is computed in integers:
\*   fl(m / d) = M * 2^-n, M of 53 bits, m * 2^n = M * d + rho, |rho| <= d/2;
\*   10 * M has 56 or 57 bits and is rounded to 53, to the nearest multiple
\*   of 2^s (s = 3 or 4), a tie to the even multiple: Y = (10*M + off) * 2^-n;
\*   Y - 10*m/d = (off - 10*rho/d) * 2^-n.
\* Only M mod 16 is needed, which is (m * 2^n mod 16*d) divided by d.
RoundedScore(m, d) ==
    LET q == (1000 * m) \div d
        r == (1000 * m) % d
        \* 1 <= m * 2^j / d < 2
        j == CHOOSE k \in 0..30 : m * 2^k >= d /\ \A l \in 0..(k - 1) : m * 2^l < d
        n == 52 + j
        pw[k \in 0..n] == IF k = 0 THEN m % (16 * d) ELSE (2 * pw[k - 1]) % (16 * d)
        rho0 == pw[n] % d
        Mfloor == (pw[n] - rho0) \div d
        up == 2 * rho0 > d \/ (2 * rho0 = d /\ Mfloor % 2 = 1)
        M16 == IF up THEN (Mfloor + 1) % 16 ELSE Mfloor
        rho == IF up THEN rho0 - d ELSE rho0
        s == IF 5 * m * 2^j >= 8 * d THEN 4 ELSE 3
        P == (10 * M16) % 2^(s + 1)
        L == P % 2^s
        half == 2^(s - 1)
        off == IF L < half THEN 0 - L
               ELSE IF L > half THEN 2^s - L
               ELSE IF P \div 2^s = 0 THEN 0 - L ELSE half
        side == off * d - 10 * rho
    IN  IF 2 * r < d THEN q
        ELSE IF 2 * r > d THEN q + 1
        ELSE IF side > 0 THEN q + 1
        ELSE IF side < 0 THEN q
        ELSE IF q % 2 = 0 THEN q ELSE q + 1

\* set(s.lower() for s in skills)
LowerSet(skills) == {Lower(skills[i]) : i \in DOMAIN skills}

\* the scorer as it would be if the resume skills were compared as written
compute_compatibility_case_sensitive(rs_in, js_in) ==
    LET rs == {rs_in[i] : i \in DOMAIN rs_in}
        js == LowerSet(js_in)
        matched == SortedSet(rs \cap js)
        missing == SortedSet(js \ rs)
        denom == IF Cardinality(js) > 1 THEN Cardinality(js) ELSE 1
    IN  [score |-> RoundedScore(Len(matched), denom),
         matched |-> matched,
         missing |-> missing]

\* the scorer as it would be if it divided by the length of the job list
compute_compatibility_list_length(rs_in, js_in) ==
    LET rs == LowerSet(rs_in)
        js == LowerSet(js_in)
        matched == SortedSet(rs \cap js)
        missing == SortedSet(js \ rs)
        denom == IF Len(js_in) > 1 THEN Len(js_in) ELSE 1
    IN  [score |-> RoundedScore(Len(matched), denom),
         matched |-> matched,
         missing |-> missing]

compute_compatibility(rs_in, js_in) ==
    LET rs == LowerSet(rs_in)
        js == LowerSet(js_in)
        matched == SortedSet(rs \cap js)
        missing == SortedSet(js \ rs)
        denom == IF Cardinality(js) > 1 THEN Cardinality(js) ELSE 1
    IN  [score |-> RoundedScore(Len(matched), denom),
         matched |-> matched,
         missing |-> missing]

-----------------------------------------------------------------------------
(* app/services/skill_matcher.py: analyze_resume_vs_jd                     *)

JobDescription(title, description) == [title |-> title, description |-> description]

\* the analysis as it would be if it suggested adding the matched skills
analyze_resume_vs_jd_add_matched(resume_skill_list, j) ==
    LET jd_skill_list == matcher_extract_skills_from_text(j.title \o <<"\n">> \o j.description)
        r == compute_compatibility(resume_skill_list, jd_skill_list)
        irrelevant == SelectSeq(resume_skill_list, LAMBDA sk : sk \notin Range(jd_skill_list))
    IN  [compatibility_score |-> r.score,
         matched_skills |-> r.matched,
         missing_skills |-> r.missing,
         irrelevant_content |-> irrelevant,
         suggestions |-> [add |-> r.matched, remove |-> <<>>]]

\* resume_skill_list is resume.skills, the only field of the resume that is read
analyze_resume_vs_jd(resume_skill_list, j) ==
    LET jd_skill_list == matcher_extract_skills_from_text(j.title \o <<"\n">> \o j.description)
        r == compute_compatibility(resume_skill_list, jd_skill_list)
        irrelevant == SelectSeq(resume_skill_list, LAMBDA sk : sk \notin Range(jd_skill_list))
    IN  [compatibility_score |-> r.score,
         matched_skills |-> r.matched,
         missing_skills |-> r.missing,
         irrelevant_content |-> irrelevant,
         suggestions |-> [add |-> r.missing, remove |-> <<>>]]

-----------------------------------------------------------------------------
(* app/services/extractor.py: the report that save_extracted_data writes,  *)
(* as the list of the sizes in bytes (UTF-8) of its f.write calls.         *)

\* len(s.encode('utf-8'))
Utf8Len(s) ==
    Len(s) + Cardinality({i \in DOMAIN s : OrdOf[s[i]] >= 128})
           + Cardinality({i \in DOMAIN s : OrdOf[s[i]] >= 2048})

\* len(str(n)) for n >= 0
RECURSIVE Digits(_)
Digits(n) == IF n < 10 THEN 1 ELSE 1 + Digits(n \div 10)

RECURSIVE SumSeq(_, _)
SumSeq(q, i) == IF i > Len(q) THEN 0 ELSE q[i] + SumSeq(q, i + 1)

RECURSIVE ConcatAll(_, _)
ConcatAll(qs, i) == IF i > Len(qs) THEN <<>> ELSE qs[i] \o ConcatAll(qs, i + 1)

\* x or 'NOT EXTRACTED'
OrNotExtracted(x) == IF x = None \/ x = <<>> THEN S_NOT_EXTRACTED ELSE x

\* lines 335 to 368: the heading of a section, the rule and the section, when
\* the section is not empty; head is the size of the heading
SectionWrites(section, head) ==
    IF Strip(section) # <<>> THEN <<head, 101, Utf8Len(Strip(section)) + 2>> ELSE <<>>

\* lines 322 to 419: the sizes of the writes, in their order; iso is the
\* length of datetime.now().isoformat()
ReportWrites(t, sections, extracted, iso) ==
    LET skills == SortedList(extracted.skills)
        profiles == extracted.online_profiles
        projects == extracted.projects
        achievements == IF extracted.achievements = None THEN <<>> ELSE extracted.achievements
    IN  <<101, 44 + iso + 1, 102, 55, 101, Utf8Len(t), 2, 101, 51, 102>>
        \o SectionWrites(sections["contact"], 31)
        \o SectionWrites(sections["summary"], 32)
        \o SectionWrites(sections["education"], 21)
        \o SectionWrites(sections["experience"], 29)
        \o SectionWrites(sections["projects"], 32)
        \o SectionWrites(sections["skills"], 37)
        \o SectionWrites(sections["achievements"], 39)
        \o <<101, 53, 102,
              17 + Utf8Len(OrNotExtracted(extracted.name)),
              18 + Utf8Len(OrNotExtracted(extracted.email)),
              19 + Utf8Len(OrNotExtracted(extracted.phone)),
              30 + Utf8Len(OrNotExtracted(extracted.experience_summary)),
              34 + Digits(Len(skills))>>
        \o (IF skills # <<>> THEN [k \in DOMAIN skills |-> 11 + Utf8Len(skills[k])] ELSE <<24>>)
        \o <<1, 33 + Digits(Len(profiles))>>
        \o (IF profiles # <<>>
            THEN [k \in DOMAIN profiles |->
                     13 + Utf8Len(profiles[k].label) + Utf8Len(profiles[k].url)]
            ELSE <<22>>)
        \o <<1, 32 + Digits(Len(projects))>>
        \o (IF projects # <<>>
            THEN ConcatAll([k \in DOMAIN projects |->
                     <<5 + Digits(k) + Utf8Len(projects[k].name)>> \o
                     (IF projects[k].technologies # <<>>
                      THEN <<20 + Utf8Len(Join(projects[k].technologies, <<",", " ">>))>>
                      ELSE <<>>)], 1)
            ELSE <<26>>)
        \o <<1, 34 + Digits(Len(achievements))>>
        \o (IF achievements # <<>>
            THEN [k \in DOMAIN achievements |-> 11 + Utf8Len(achievements[k])]
            ELSE <<30>>)
        \o <<1, 101, 14, 101>>

\* the text layer of the file object of open(filename, 'w') keeps what is
\* written until it has this many bytes
CHUNK_SIZE == 8192

\* the offsets in the report at which the text layer hands what it keeps to
\* the buffer of the file before the file is closed: before a write that
\* would take it over CHUNK_SIZE, and after a write that takes it to
\* CHUNK_SIZE or more
RECURSIVE FlushFrom(_, _, _, _, _)
FlushFrom(writes, k, pending, total, points) ==
    IF k > Len(writes) THEN points
    ELSE IF pending > 0 /\ pending + writes[k] > CHUNK_SIZE
    THEN FlushFrom(writes, k, 0, total, points \cup {total})
    ELSE IF pending + writes[k] >= CHUNK_SIZE
    THEN FlushFrom(writes, k + 1, 0, total + writes[k], points \cup {total + writes[k]})
    ELSE FlushFrom(writes, k + 1, pending + writes[k], total + writes[k], points)

FlushPoints(writes) == FlushFrom(writes, 1, 0, 0, {})

\* datetime.now().isoformat() of line 323: without microseconds when they are 0
IsoLengths == {19, 26}

\* the report of a call: its size and its flush points
Report(t, built, iso) ==
    LET writes == ReportWrites(t, split_resume_by_sections(t), built.value, iso)
    IN  [size |-> SumSeq(writes, 1), points |-> FlushPoints(writes)]

-----------------------------------------------------------------------------
(* app/services/extractor.py: save_extracted_data, and extract_resume_info *)
(* as a whole.  ./results is absent, a directory, a directory that cannot  *)
(* be written to, or a file that is no directory; report_exists tells      *)
(* whether ./results holds the file named by the second of the clock.      *)

ResultsDirStates == {"absent", "dir", "readonly_dir", "file"}

\* the last second the clock reaches
MaxClock == 1

\* os.makedirs(result_dir, exist_ok=True), then open(filename, 'w') and the
\* writes: [raised |-> the exception that escapes ("" for none),
\* dir |-> ./results afterwards, written |-> the number of reports written].
\* In a directory that cannot be written to no file is created, and a file
\* that exists is opened and written again.
save_extracted_data(dir, report_exists) ==
    CASE dir = "file" -> [raised |-> "FileExistsError", dir |-> dir, written |-> 0]
      [] dir = "readonly_dir" ->
            IF report_exists THEN [raised |-> "", dir |-> dir, written |-> 1]
            ELSE [raised |-> "PermissionError", dir |-> dir, written |-> 0]
      [] dir = "absent" -> [raised |-> "", dir |-> "dir", written |-> 1]
      [] dir = "dir" -> [raised |-> "", dir |-> "dir", written |-> 1]

\* extract_resume_info(t) with ./results in state dir: the Resume object is
\* built, the report is saved, the object is returned; an exception of either
\* step escapes to the caller
ReturnSaved(built, saved, dir) ==
    IF built.raised # ""
    THEN [raised |-> built.raised, value |-> None, dir |-> dir, written |-> 0]
    ELSE IF saved.raised # ""
    THEN [raised |-> saved.raised, value |-> None, dir |-> saved.dir, written |-> 0]
    ELSE [raised |-> "", value |-> built.value, dir |-> saved.dir,
          written |-> saved.written]

extract_resume_info(t, dir, report_exists) ==
    ReturnSaved(BuildResume(t), save_extracted_data(dir, report_exists), dir)

-----------------------------------------------------------------------------
(* app/routes/upload.py: the merge of the supplied hyperlinks              *)

\* the merge as it would be without the look-up of the URL among the profiles
RECURSIVE MergeFromUnchecked(_, _, _)
MergeFromUnchecked(online_profiles, links, i) ==
    IF i > Len(links) THEN online_profiles
    ELSE LET url == links[i][2]
         IN  IF url # <<>>
             THEN MergeFromUnchecked(Append(online_profiles, OnlineProfile(label_url(url), url)),
                                     links, i + 1)
             ELSE MergeFromUnchecked(online_profiles, links, i + 1)

\* the for loop of upload_resume from link i on; a link is <<link_text, url>>
RECURSIVE MergeFrom(_, _, _)
MergeFrom(online_profiles, links, i) ==
    IF i > Len(links) THEN online_profiles
    ELSE LET url == links[i][2]
         IN  IF url # <<>> /\ ~ \E k \in DOMAIN online_profiles : online_profiles[k].url = url
             THEN MergeFrom(Append(online_profiles, OnlineProfile(label_url(url), url)),
                            links, i + 1)
             ELSE MergeFrom(online_profiles, links, i + 1)

\* if hyperlinks: ... (an empty list leaves the profiles alone, as the loop does)
MergeHyperlinksInto(online_profiles, links) ==
    IF links # <<>> THEN MergeFrom(online_profiles, links, 1) ELSE online_profiles

-----------------------------------------------------------------------------
(* app/services/groq_analyzer.py and the analysis of app/routes/upload.py. *)
(* The service is outside the program: what the key of the environment is  *)
(* and what the API call does are inputs.                                  *)

\* get_groq_client: the exception raised ("" for none); api_key is
\* os.getenv("GROQ_API_KEY2"), None when unset
get_groq_client(api_key) ==
    IF api_key = None \/ api_key = <<>> THEN "ValueError" ELSE ""

\* the dict of parse_groq_response as the pairs of its keys and values; of its
\* keys raw_response is kept, the others are filled from the text of the reply
ParsedReply(response) == << <<"raw_response", response>> >>

\* generate_resume_analysis: [raised |-> the exception that escapes ("" for
\* none), value |-> the result]; api is what client.chat.completions.create
\* does, [raised |-> its exception, content |-> message.choices[0].message.content]
generate_resume_analysis(api_key, api) ==
    IF get_groq_client(api_key) # ""
    THEN [raised |-> get_groq_client(api_key), value |-> None]
    ELSE IF api.raised # ""
    THEN [raised |-> api.raised, value |-> None]
    ELSE IF api.content = None
    THEN [raised |-> "AttributeError", value |-> None]
    ELSE [raised |-> "", value |-> ParsedReply(api.content)]

S_Analysis_Error == "Analysis Error: "
S_Please_ensure == ". Please ensure GROQ_API_KEY2 is set in .env file."

\* upload_resume, lines 43 to 50, as they would be without the try: the
\* exception of the analysis escapes
AnalysisUnguarded(jd_desc, result) ==
    IF jd_desc # <<>>
    THEN [raised |-> result.raised, invoked |-> TRUE, llm_raised |-> result.raised,
          analysis |-> result.value, groq_error |-> None]
    ELSE [raised |-> "", invoked |-> FALSE, llm_raised |-> "",
          analysis |-> None, groq_error |-> None]

\* upload_resume, lines 43 to 50; result is what generate_resume_analysis
\* does when it is called: [raised |-> the exception that escapes the handler,
\* invoked |-> whether the analysis was called, llm_raised |-> the exception of
\* the analysis, analysis, groq_error |-> the values handed to the template]
Analysis(jd_desc, result) ==
    IF jd_desc # <<>>
    THEN IF result.raised = ""
         THEN [raised |-> "", invoked |-> TRUE, llm_raised |-> "",
               analysis |-> result.value, groq_error |-> None]
         ELSE [raised |-> "", invoked |-> TRUE, llm_raised |-> result.raised,
               analysis |-> None,
               groq_error |-> <<S_Analysis_Error, result.raised, S_Please_ensure>>]
    ELSE [raised |-> "", invoked |-> FALSE, llm_raised |-> "",
          analysis |-> None, groq_error |-> None]

\* x or ""
OrEmpty(x) == IF x = None THEN <<>> ELSE x

-----------------------------------------------------------------------------
(* Inputs.                                                                 *)

S_Python == <<"P","y","t","h","o","n">>
S_python == <<"p","y","t","h","o","n">>
S_SQL == <<"S","Q","L">>
S_sql == <<"s","q","l">>
S_AWS == <<"A","W","S">>
S_docker == <<"d","o","c","k","e","r">>

\* the longest skill lists handed to the scorer
MaxSkills == 3
ResumeSkillPool == {S_Python, S_SQL, S_AWS, S_python}
JdSkillPool == {S_python, S_docker, S_sql, S_SQL}

L_blank == <<>>
L_John_Smith == <<"J","o","h","n"," ","S","m","i","t","h">>
L_Software_Engineer == <<"S","o","f","t","w","a","r","e"," ","E","n","g","i","n","e","e","r">>
L_john_email == <<"j","o","h","n","@","x",".","c","o","m">>
L_Achievements == <<"A","c","h","i","e","v","e","m","e","n","t","s",":">>
L_Won == <<"-"," ","W","o","n"," ","f","i","r","s","t"," ","p","l","a","c","e"," ","i","n"," ","h","a","c","k","a","t","h","o","n"," ","2","0","2","3">>
L_linkedin_url == <<"h","t","t","p","s",":","/","/","l","i","n","k","e","d","i","n",".","c","o","m","/","i","n","/","j","d","o","e">>
L_github_url == <<"h","t","t","p","s",":","/","/","g","i","t","h","u","b",".","c","o","m","/","j","d","o","e">>
L_Skills == <<"S","k","i","l","l","s",":">>
L_Education == <<"E","d","u","c","a","t","i","o","n",":">>
L_javascript_developer == <<"j","a","v","a","s","c","r","i","p","t"," ","d","e","v","e","l","o","p","e","r">>
L_java == <<"j","a","v","a">>
L_python_sql == <<"P","y","t","h","o","n",","," ","m","y","_","s","q","l">>

\* the texts of at most n lines drawn from pool
TextsOf(pool, n) == {Join(ls, <<"\n">>) : ls \in SeqsUpTo(pool, n)}

\* the most lines of a resume handed to extract_resume_info
MaxResumeLines == 3
ResumeLinePool == {L_blank, L_John_Smith, L_Achievements, L_Won, L_linkedin_url}

\* the most lines of a text handed to one extractor
MaxLines == 3
LinePool == {L_John_Smith, L_Software_Engineer, L_john_email, L_Skills, L_Education,
             L_javascript_developer, L_java, L_python_sql}

\* the most hyperlinks the parser supplies
MaxLinks == 2
LinkPool == {<<<<"L","i","n","k","e","d","I","n">>, L_linkedin_url>>, <<<<"G","i","t","H","u","b">>, L_github_url>>, <<<<"H","o","m","e">>, <<>> >>}

JdTitles == {<<>>, <<"E","n","g","i","n","e","e","r">>}

\* the texts of job descriptions
D_python_docker_sql == <<"p","y","t","h","o","n"," ","d","o","c","k","e","r"," ","s","q","l">>
D_Python_SQL == <<"P","y","t","h","o","n",","," ","S","Q","L">>
D_aws == <<"a","w","s">>
JdDescriptions == {<<>>, D_python_docker_sql, D_Python_SQL, D_aws}

NoCall == [fn |-> "none"]
NoJd == JobDescription(<<>>, <<>>)

-----------------------------------------------------------------------------
(* The upload handler: extract_resume_info on the text of the upload, then *)
(* the merge of the hyperlinks; and the same text uploaded a second time.  *)

Init ==
    /\ text \in TextsOf(ResumeLinePool, MaxResumeLines)
    /\ results_dir \in ResultsDirStates
    /\ reports = 0
    /\ hyperlinks = <<>>
    /\ prev = NoCall
    /\ resume_skills = <<>>
    /\ jd_skills = <<>>
    /\ jd = NoJd
    /\ ret = NoCall
    /\ calls = <<>>
    /\ clock = 0
    /\ files = <<>>

\* the file named by the second of the clock after a call has written its
\* report, the n-th one, of the given size: the file is created or emptied,
\* and holds the report
Saved(fs, name, n, size) ==
    [f \in DOMAIN fs \cup {name} |-> IF f = name THEN << <<n, 1, size>> >> ELSE fs[f]]

\* resume_obj = extract_resume_info(text), lines 424 to 465
ExtractResumeInfo ==
    /\ ret.fn = "none"
    /\ \E r \in {extract_resume_info(text, results_dir, clock \in DOMAIN files)} :
           /\ ret' = [fn |-> "extract_resume_info", raised |-> r.raised, value |-> r.value]
           /\ results_dir' = r.dir
           /\ reports' = reports + r.written
           /\ IF r.written = 0 THEN files' = files
              ELSE \E iso \in IsoLengths :
                       files' = Saved(files, clock, reports + 1, Report(text, r, iso).size)
    /\ UNCHANGED <<text, hyperlinks, prev, resume_skills, jd_skills, jd>>
    /\ UNCHANGED <<calls, clock>>

\* upload_resume, lines 28 to 35, for any hyperlinks the parser may supply
MergeHyperlinks ==
    /\ ret.fn = "extract_resume_info"
    /\ ret.raised = ""
    /\ \E links \in SeqsUpTo(LinkPool, MaxLinks) :
        /\ hyperlinks' = links
        /\ ret' = [fn |-> "upload_resume", raised |-> "",
                   extracted |-> ret.value,
                   value |-> [ret.value EXCEPT !.online_profiles =
                                 MergeHyperlinksInto(ret.value.online_profiles, links)]]
    /\ UNCHANGED <<text, results_dir, reports, prev, resume_skills, jd_skills, jd>>
    /\ UNCHANGED <<calls, clock, files>>

\* the forms of the upload: a field left out is None
FormTitles == {None} \cup JdTitles
FormTexts == {None, <<>>, D_aws}
\* os.getenv("GROQ_API_KEY2")
ApiKeys == {None, <<"g","s","k">>}
\* what the API call does: it raises, or its reply has no content, or a text
ApiOutcomes == {[raised |-> "APIConnectionError", content |-> None],
                [raised |-> "", content |-> None],
                [raised |-> "", content |-> <<"O","K">>]}

\* upload_resume, lines 37 to 58: the job description, the analysis and the
\* response rendered from result.html
RenderResult ==
    /\ ret.fn = "upload_resume"
    /\ \E jd_title \in FormTitles, jd_text \in FormTexts, api_key \in ApiKeys,
          api \in ApiOutcomes :
        /\ jd' = JobDescription(OrEmpty(jd_title), OrEmpty(jd_text))
        /\ \E a \in {Analysis(OrEmpty(jd_text), generate_resume_analysis(api_key, api))} :
            ret' = [fn |-> "TemplateResponse",
                    raised |-> a.raised,
                    resume |-> ret.value,
                    invoked |-> a.invoked,
                    llm_raised |-> a.llm_raised,
                    analysis |-> a.analysis,
                    groq_error |-> a.groq_error]
    /\ UNCHANGED <<text, results_dir, reports, hyperlinks, prev, resume_skills, jd_skills>>
    /\ UNCHANGED <<calls, clock, files>>

\* the same text is uploaded again, in the same second or a second later,
\* with ./results in any state by then: as a directory it holds the files it
\* held
UploadAgain ==
    /\ ret.fn = "extract_resume_info"
    /\ prev.fn = "none"
    /\ prev' = ret
    /\ ret' = NoCall
    /\ results_dir' \in ResultsDirStates
    /\ files' = IF results_dir' \in {"dir", "readonly_dir"} THEN files ELSE <<>>
    /\ clock' \in {c \in {clock, clock + 1} : c <= MaxClock}
    /\ UNCHANGED <<text, reports, hyperlinks, resume_skills, jd_skills, jd>>
    /\ UNCHANGED calls

Next == ExtractResumeInfo \/ MergeHyperlinks \/ RenderResult \/ UploadAgain

Spec == Init /\ [][Next]_vars

-----------------------------------------------------------------------------
(* The extractors, each applied to a text.                                 *)

InitFunctions ==
    /\ text \in TextsOf(LinePool, MaxLines)
    /\ results_dir = "absent"
    /\ reports = 0
    /\ hyperlinks = <<>>
    /\ prev = NoCall
    /\ resume_skills = <<>>
    /\ jd_skills = <<>>
    /\ jd = NoJd
    /\ ret = NoCall
    /\ calls = <<>>
    /\ clock = 0
    /\ files = <<>>

ExtractName ==
    /\ ret.fn = "none"
    /\ ret' = [fn |-> "extract_name_robust", value |-> extract_name_robust(text)]
    /\ UNCHANGED <<text, results_dir, reports, hyperlinks, prev, resume_skills, jd_skills, jd>>
    /\ UNCHANGED <<calls, clock, files>>

SplitSections ==
    /\ ret.fn = "none"
    /\ ret' = [fn |-> "split_resume_by_sections", value |-> split_resume_by_sections(text)]
    /\ UNCHANGED <<text, results_dir, reports, hyperlinks, prev, resume_skills, jd_skills, jd>>
    /\ UNCHANGED <<calls, clock, files>>

\* skills = extract_skills_from_text(text): the skills of the resume
ExtractSkills ==
    /\ ret.fn = "none"
    /\ LET skills == extract_skills_from_text(text)
       IN  /\ ret' = [fn |-> "extract_skills_from_text", value |-> skills]
           /\ resume_skills' = skills
    /\ UNCHANGED <<text, results_dir, reports, hyperlinks, prev, jd_skills, jd>>
    /\ UNCHANGED <<calls, clock, files>>

\* analyze_resume_vs_jd of the resume with those skills against a job
\* description whose description is the same text
AnalyzeSameText ==
    /\ ret.fn = "extract_skills_from_text"
    /\ \E title \in JdTitles :
        /\ jd' = JobDescription(title, text)
        /\ ret' = [fn |-> "analyze_resume_vs_jd",
                   value |-> analyze_resume_vs_jd(resume_skills, jd')]
    /\ UNCHANGED <<text, results_dir, reports, hyperlinks, prev, resume_skills, jd_skills>>
    /\ UNCHANGED <<calls, clock, files>>

NextFunctions == ExtractName \/ SplitSections \/ ExtractSkills \/ AnalyzeSameText

SpecFunctions == InitFunctions /\ [][NextFunctions]_vars

-----------------------------------------------------------------------------
(* The scorer applied to two skill lists.                                  *)

InitScore ==
    /\ resume_skills \in SeqsUpTo(ResumeSkillPool, MaxSkills)
    /\ jd_skills \in SeqsUpTo(JdSkillPool, MaxSkills)
    /\ text = <<>>
    /\ results_dir = "absent"
    /\ reports = 0
    /\ hyperlinks = <<>>
    /\ prev = NoCall
    /\ jd = NoJd
    /\ ret = NoCall
    /\ calls = <<>>
    /\ clock = 0
    /\ files = <<>>

ComputeCompatibility ==
    /\ ret.fn = "none"
    /\ ret' = [fn |-> "compute_compatibility",
               value |-> compute_compatibility(resume_skills, jd_skills)]
    /\ UNCHANGED <<text, results_dir, reports, hyperlinks, prev, resume_skills, jd_skills, jd>>
    /\ UNCHANGED <<calls, clock, files>>

NextScore == ComputeCompatibility

SpecScore == InitScore /\ [][NextScore]_vars

-----------------------------------------------------------------------------
(* The analysis route: analyze_resume_vs_jd of a resume, whose skills the  *)
(* form supplies in any case, against a job description.                   *)

InitAnalyze ==
    /\ resume_skills \in SeqsUpTo(ResumeSkillPool, MaxSkills)
    /\ jd_skills = <<>>
    /\ text = <<>>
    /\ results_dir = "absent"
    /\ reports = 0
    /\ hyperlinks = <<>>
    /\ prev = NoCall
    /\ jd = NoJd
    /\ ret = NoCall
    /\ calls = <<>>
    /\ clock = 0
    /\ files = <<>>

\* analysis.py, lines 18 to 21: analyze_resume_vs_jd(resume, jd)
AnalyzeResumeVsJd ==
    /\ ret.fn = "none"
    /\ \E title \in JdTitles, description \in JdDescriptions :
        /\ jd' = JobDescription(title, description)
        /\ ret' = [fn |-> "analyze_resume_vs_jd",
                   value |-> analyze_resume_vs_jd(resume_skills, jd')]
    /\ UNCHANGED <<text, results_dir, reports, hyperlinks, prev, resume_skills, jd_skills>>
    /\ UNCHANGED <<calls, clock, files>>

NextAnalyze == AnalyzeResumeVsJd

SpecAnalyze == InitAnalyze /\ [][NextAnalyze]_vars

-----------------------------------------------------------------------------
(* Profile extraction applied to a text.                                   *)

P_two_urls == <<"s","e","e"," ","h","t","t","p",":","/","/","x",".","i","o","/","g","i","t","l","a","b","-","G","i","t","H","u","b",","," ","h","t","t","p","s",":","/","/","x",".","i","o">>

\* the most lines of a text handed to extract_profiles_from_text
MaxProfileLines == 3
ProfileLinePool == {L_John_Smith, L_github_url, L_linkedin_url, P_two_urls}

InitProfiles ==
    /\ text \in TextsOf(ProfileLinePool, MaxProfileLines)
    /\ results_dir = "absent"
    /\ reports = 0
    /\ hyperlinks = <<>>
    /\ prev = NoCall
    /\ resume_skills = <<>>
    /\ jd_skills = <<>>
    /\ jd = NoJd
    /\ ret = NoCall
    /\ calls = <<>>
    /\ clock = 0
    /\ files = <<>>

ExtractProfiles ==
    /\ ret.fn = "none"
    /\ ret' = [fn |-> "extract_profiles_from_text", value |-> extract_profiles_from_text(text)]
    /\ UNCHANGED <<text, results_dir, reports, hyperlinks, prev, resume_skills, jd_skills, jd>>
    /\ UNCHANGED <<calls, clock, files>>

NextProfiles == ExtractProfiles

SpecProfiles == InitProfiles /\ [][NextProfiles]_vars

-----------------------------------------------------------------------------
(* extract_resume_info on resumes with section headers.                    *)

L_Summary == <<"S","u","m","m","a","r","y",":">>
L_Awards_2023 == <<"A","w","a","r","d","s"," ","2","0","2","3",":">>
L_Honors == <<"H","o","n","o","r","s"," ","a","n","d"," ","a","c","h","i","e","v","e","m","e","n","t","s",":">>
L_project_chatbot == <<"p","r","o","j","e","c","t",":"," ","c","h","a","t","b","o","t"," ","i","n"," ","p","y","t","h","o","n">>

\* the most lines of a resume with section headers
MaxRecordLines == 3
RecordLinePool == {L_blank, L_John_Smith, L_Summary, L_Achievements, L_Awards_2023, L_Honors,
                   L_Won, L_linkedin_url, L_project_chatbot}

InitRecord ==
    /\ text \in TextsOf(RecordLinePool, MaxRecordLines)
    /\ results_dir \in {"absent", "dir"}
    /\ reports = 0
    /\ hyperlinks = <<>>
    /\ prev = NoCall
    /\ resume_skills = <<>>
    /\ jd_skills = <<>>
    /\ jd = NoJd
    /\ ret = NoCall
    /\ calls = <<>>
    /\ clock = 0
    /\ files = <<>>

NextRecord == ExtractResumeInfo

SpecRecord == InitRecord /\ [][NextRecord]_vars

-----------------------------------------------------------------------------
(* split_resume_by_sections on texts with headers of several sections.     *)

H_Technical_projects == <<"T","e","c","h","n","i","c","a","l"," ","p","r","o","j","e","c","t","s",":">>
H_Awards == <<" "," ","A","w","a","r","d","s">>
H_email == <<"e","m","a","i","l",":"," ","j","@","x",".","c","o","m">>
H_Summary == <<"S","u","m","m","a","r","y">>

\* the most lines of a text handed to split_resume_by_sections
MaxSectionLines == 3
SectionLinePool == {L_blank, L_java, L_Skills, L_Education, H_Technical_projects, H_Awards,
                    H_email, H_Summary}

InitSections ==
    /\ text \in TextsOf(SectionLinePool, MaxSectionLines)
    /\ results_dir = "absent"
    /\ reports = 0
    /\ hyperlinks = <<>>
    /\ prev = NoCall
    /\ resume_skills = <<>>
    /\ jd_skills = <<>>
    /\ jd = NoJd
    /\ ret = NoCall
    /\ calls = <<>>
    /\ clock = 0
    /\ files = <<>>

NextSections == SplitSections

SpecSections == InitSections /\ [][NextSections]_vars

-----------------------------------------------------------------------------
(* extract_name_robust on texts of more than 15 lines.                     *)

N_Jean_Luc_Picard == <<"j","e","a","n"," ","l","u","c"," ","P","I","C","A","R","D">>
N_Mary_Ann_Van_Buren == <<"M","a","r","y"," ","A","n","n"," ","V","a","n"," ","B","u","r","e","n">>
\* 14 lines that are no name candidates
N_fourteen_lines == <<"a","@","b","\n","a","@","b","\n","a","@","b","\n","a","@","b","\n","a","@","b","\n","a","@","b","\n","a","@","b","\n","a","@","b","\n","a","@","b","\n","a","@","b","\n","a","@","b","\n","a","@","b","\n","a","@","b","\n","a","@","b">>

\* the most blocks of lines of a text handed to extract_name_robust
MaxNameBlocks == 3
NameBlockPool == {L_blank, L_John_Smith, L_Software_Engineer, L_john_email, N_Jean_Luc_Picard,
                  N_Mary_Ann_Van_Buren, N_fourteen_lines}

InitName ==
    /\ text \in TextsOf(NameBlockPool, MaxNameBlocks)
    /\ results_dir = "absent"
    /\ reports = 0
    /\ hyperlinks = <<>>
    /\ prev = NoCall
    /\ resume_skills = <<>>
    /\ jd_skills = <<>>
    /\ jd = NoJd
    /\ ret = NoCall
    /\ calls = <<>>
    /\ clock = 0
    /\ files = <<>>

NextName == ExtractName

SpecName == InitName /\ [][NextName]_vars

-----------------------------------------------------------------------------
(* Achievement extraction applied to a text.                               *)

A_numbered == <<"1","."," ","L","e","d"," ","t","e","a","m"," ","o","f"," ","f","i","v","e"," ","e","n","g","i","n","e","e","r","s">>
A_bullet == <<"U+2022"," ","W","o","n"," ","f","i","r","s","t"," ","p","l","a","c","e"," ","i","n"," ","h","a","c","k","a","t","h","o","n"," ","2","0","2","3">>
A_short == <<"-"," ","s","h","o","r","t">>

\* the most lines of a text handed to extract_achievements_from_text
MaxAchievementLines == 3
AchievementLinePool == {L_blank, L_John_Smith, L_Won, A_numbered, A_bullet, A_short}

InitAchievements ==
    /\ text \in TextsOf(AchievementLinePool, MaxAchievementLines)
    /\ results_dir = "absent"
    /\ reports = 0
    /\ hyperlinks = <<>>
    /\ prev = NoCall
    /\ resume_skills = <<>>
    /\ jd_skills = <<>>
    /\ jd = NoJd
    /\ ret = NoCall
    /\ calls = <<>>
    /\ clock = 0
    /\ files = <<>>

ExtractAchievements ==
    /\ ret.fn = "none"
    /\ \E r \in {extract_achievements_from_text(text)} :
        ret' = [fn |-> "extract_achievements_from_text", raised |-> r.raised, value |-> r.value]
    /\ UNCHANGED <<text, results_dir, reports, hyperlinks, prev, resume_skills, jd_skills, jd>>
    /\ UNCHANGED <<calls, clock, files>>

NextAchievements == ExtractAchievements

SpecAchievements == InitAchievements /\ [][NextAchievements]_vars

-----------------------------------------------------------------------------
(* Two extract_resume_info calls on different texts that run at the same   *)
(* time (two workers, or two requests of one worker): the steps of a call  *)
(* that touch ./results are those of save_extracted_data.  The content of  *)
(* a file is a list of runs of bytes <<c, lo, hi>>: the bytes lo to hi of  *)
(* the report of call c, or, with c = 0, hi zero bytes.  A report reaches  *)
(* its file when the file is closed, and a report that does not fit in the *)
(* buffer of the file object (CHUNK_SIZE) in part before: each call writes *)
(* at the offset of its own file object.                                   *)

CallIds == {1, 2}

\* the length of the line of a text whose report does not fit in CHUNK_SIZE
LongLineChars == 1100

T_Achievements_Won == L_Achievements \o <<"\n">> \o L_Won
T_Achievements_long == L_Achievements \o <<"\n", "-", " ">> \o [k \in 1..LongLineChars |-> "U+20AC"]
ConcurrentTexts == {L_John_Smith, L_Achievements, T_Achievements_Won, T_Achievements_long}

Call(t) == [pc |-> "extract", text |-> t, filename |-> None, ret |-> NoCall,
            size |-> 0, points |-> {}, offset |-> 0]

InitConcurrent ==
    /\ \E t1, t2 \in ConcurrentTexts :
        /\ t1 # t2
        /\ calls = <<Call(t1), Call(t2)>>
    /\ clock = 0
    /\ files = <<>>
    /\ results_dir \in {"absent", "dir"}
    /\ text = <<>>
    /\ reports = 0
    /\ hyperlinks = <<>>
    /\ prev = NoCall
    /\ resume_skills = <<>>
    /\ jd_skills = <<>>
    /\ jd = NoJd
    /\ ret = NoCall

\* lines 430 to 460: the record is built, or the exception escapes
ExtractRecord(c) ==
    /\ calls[c].pc = "extract"
    /\ \E built \in {BuildResume(calls[c].text)} :
        calls' = [calls EXCEPT ![c].pc = IF built.raised # "" THEN "done" ELSE "makedirs",
                               ![c].ret = [fn |-> "extract_resume_info",
                                           raised |-> built.raised,
                                           value |-> built.value]]
    /\ UNCHANGED <<clock, files, results_dir, reports>>
    /\ UNCHANGED <<text, hyperlinks, prev, resume_skills, jd_skills, jd, ret>>

\* line 313: os.makedirs(result_dir, exist_ok=True)
MakeDirs(c) ==
    /\ calls[c].pc = "makedirs"
    /\ results_dir' = "dir"
    /\ calls' = [calls EXCEPT ![c].pc = "timestamp"]
    /\ UNCHANGED <<clock, files, reports>>
    /\ UNCHANGED <<text, hyperlinks, prev, resume_skills, jd_skills, jd, ret>>

\* lines 315 and 316: the name of the report is the second of the clock
Timestamp(c) ==
    /\ calls[c].pc = "timestamp"
    /\ calls' = [calls EXCEPT ![c].pc = "open", ![c].filename = clock]
    /\ UNCHANGED <<clock, files, results_dir, reports>>
    /\ UNCHANGED <<text, hyperlinks, prev, resume_skills, jd_skills, jd, ret>>

\* line 321: open(filename, 'w') creates the file or empties it; the report
\* of the call is the one of lines 322 to 419
Open(c) ==
    /\ calls[c].pc = "open"
    /\ files' = [n \in DOMAIN files \cup {calls[c].filename} |->
                    IF n = calls[c].filename THEN <<>> ELSE files[n]]
    /\ reports' = reports + 1
    /\ \E iso \in IsoLengths :
        \E r \in {Report(calls[c].text, calls[c].ret, iso)} :
            calls' = [calls EXCEPT ![c].pc = "close", ![c].size = r.size,
                                   ![c].points = r.points, ![c].offset = 0]
    /\ UNCHANGED <<clock, results_dir>>
    /\ UNCHANGED <<text, hyperlinks, prev, resume_skills, jd_skills, jd, ret>>

RunLen(run) == run[3] - run[2] + 1

RECURSIVE ContentLen(_, _)
ContentLen(content, i) ==
    IF i > Len(content) THEN 0 ELSE RunLen(content[i]) + ContentLen(content, i + 1)

\* the first n bytes of the content (all of it when it has fewer)
RECURSIVE Take(_, _)
Take(content, n) ==
    IF n <= 0 \/ content = <<>> THEN <<>>
    ELSE LET run == content[1]
         IN  IF RunLen(run) <= n
             THEN <<run>> \o Take(Tail(content), n - RunLen(run))
             ELSE << <<run[1], run[2], run[2] + n - 1>> >>

\* the content after its first n bytes
RECURSIVE Drop(_, _)
Drop(content, n) ==
    IF content = <<>> THEN <<>>
    ELSE IF n <= 0 THEN content
    ELSE LET run == content[1]
         IN  IF RunLen(run) <= n
             THEN Drop(Tail(content), n - RunLen(run))
             ELSE << <<run[1], run[2] + n, run[3]>> >> \o Tail(content)

\* runs that continue each other are one run
RECURSIVE Joined(_)
Joined(content) ==
    IF Len(content) < 2 THEN content
    ELSE LET a == content[1]
             b == content[2]
         IN  IF a[1] = b[1] /\ a[1] # 0 /\ b[2] = a[3] + 1
             THEN Joined(<< <<a[1], a[2], b[3]>> >> \o Tail(Tail(content)))
             ELSE IF a[1] = 0 /\ b[1] = 0
             THEN Joined(<< <<0, 1, a[3] + b[3]>> >> \o Tail(Tail(content)))
             ELSE <<a>> \o Joined(Tail(content))

\* the content of a file after the write of the bytes lo to hi of the report
\* of call c at the offset: a file that is shorter is filled with zero bytes
WriteAt(content, offset, c, lo, hi) ==
    LET len == ContentLen(content, 1)
        gap == IF offset > len THEN << <<0, 1, offset - len>> >> ELSE <<>>
    IN  Joined(Take(content, offset) \o gap \o << <<c, lo, hi>> >>
               \o Drop(content, offset + (hi - lo + 1)))

\* the first flush point of the report behind the offset, 0 when there is none
NextPoint(points, offset) ==
    IF \E p \in points : p > offset
    THEN CHOOSE p \in points : p > offset /\ \A q \in points : q > offset => p <= q
    ELSE 0

\* inside the with block of line 321: an f.write call of lines 322 to 419
\* fills the file object, and what it holds, up to the next flush point of
\* the report, is written to the file
Write(c) ==
    /\ calls[c].pc = "close"
    /\ NextPoint(calls[c].points, calls[c].offset) > 0
    /\ \E p \in {NextPoint(calls[c].points, calls[c].offset)} :
        /\ files' = [files EXCEPT ![calls[c].filename] =
                         WriteAt(@, calls[c].offset, c, calls[c].offset + 1, p)]
        /\ calls' = [calls EXCEPT ![c].offset = p]
    /\ UNCHANGED <<clock, results_dir, reports>>
    /\ UNCHANGED <<text, hyperlinks, prev, resume_skills, jd_skills, jd, ret>>

\* the end of the with block of line 321, after the last f.write call: the
\* rest of the report is written and the file closed
Close(c) ==
    /\ calls[c].pc = "close"
    /\ NextPoint(calls[c].points, calls[c].offset) = 0
    /\ files' = [files EXCEPT ![calls[c].filename] =
                     IF calls[c].offset < calls[c].size
                     THEN WriteAt(@, calls[c].offset, c, calls[c].offset + 1, calls[c].size)
                     ELSE @]
    /\ calls' = [calls EXCEPT ![c].pc = "return", ![c].offset = calls[c].size]
    /\ UNCHANGED <<clock, results_dir, reports>>
    /\ UNCHANGED <<text, hyperlinks, prev, resume_skills, jd_skills, jd, ret>>

\* line 465: return resume_obj
Return(c) ==
    /\ calls[c].pc = "return"
    /\ calls' = [calls EXCEPT ![c].pc = "done"]
    /\ UNCHANGED <<clock, files, results_dir, reports>>
    /\ UNCHANGED <<text, hyperlinks, prev, resume_skills, jd_skills, jd, ret>>

\* a second passes
Tick ==
    /\ clock < MaxClock
    /\ clock' = clock + 1
    /\ UNCHANGED <<calls, files, results_dir, reports>>
    /\ UNCHANGED <<text, hyperlinks, prev, resume_skills, jd_skills, jd, ret>>

NextConcurrent ==
    \/ \E c \in CallIds :
        \/ ExtractRecord(c)
        \/ MakeDirs(c)
        \/ Timestamp(c)
        \/ Open(c)
        \/ Write(c)
        \/ Close(c)
        \/ Return(c)
    \/ Tick

SpecConcurrent == InitConcurrent /\ [][NextConcurrent]_vars

-----------------------------------------------------------------------------
(* Properties of extract_resume_info and of the upload handler (Spec).     *)

ResumeFields == {"name", "email", "phone", "online_profiles", "experience_summary",
                 "projects", "skills", "achievements"}

\* C1: extract_resume_info is total: whatever the text (the empty text, a text
\* with blank lines, a text without an achievements or projects section), the
\* call never raises because a field or a section was not found, and what it
\* returns is a record with every field present.
C1_ExtractionIsTotal ==
    ret.fn = "extract_resume_info" =>
        /\ ret.raised # "IndexError"
        /\ ret.raised = "" => DOMAIN ret.value = ResumeFields

\* C2: a failure of the persistence step (creating ./results, writing the
\* report) never reaches the caller of extract_resume_info: whenever the record
\* can be built, the call returns it, the same record as when the report is
\* written.
C2_PersistenceFailureIsContained ==
    (ret.fn = "extract_resume_info" /\ BuildResume(text).raised = "") =>
        /\ ret.raised = ""
        /\ ret.value = BuildResume(text).value

\* C7: extraction is deterministic: of two runs of extract_resume_info on the
\* same text, each started from any state of ./results, if one returns a record
\* then the other returns a record equal to it in every field.
C7_ExtractionIsDeterministic ==
    (/\ prev.fn = "extract_resume_info"
     /\ ret.fn = "extract_resume_info"
     /\ (prev.raised = "" \/ ret.raised = "")) =>
        /\ prev.raised = ""
        /\ ret.raised = ""
        /\ \A f \in ResumeFields : ret.value[f] = prev.value[f]

\* the URLs of a list of profiles, and how many profiles carry the URL u
UrlsOf(profiles) == {profiles[k].url : k \in DOMAIN profiles}
ProfilesWithUrl(profiles, u) == Cardinality({k \in DOMAIN profiles : profiles[k].url = u})
LinkUrls(links) == {links[k][2] : k \in DOMAIN links}

\* C8: the merge of the supplied hyperlinks keeps the extracted profiles, in
\* their order, as the beginning of the list; every profile it appends carries
\* a non-empty URL of a supplied hyperlink, is labelled by label_url, and
\* carries a URL that no profile before it in the list has; so the number of
\* profiles with a URL that was already present does not grow; and nothing
\* else of the record changes.
C8_MergeAppendsOnlyNewUrls ==
    ret.fn = "upload_resume" =>
        LET old == ret.extracted.online_profiles
            new == ret.value.online_profiles
        IN  /\ Len(new) >= Len(old)
            /\ SubSeq(new, 1, Len(old)) = old
            /\ \A k \in (Len(old) + 1)..Len(new) :
                  /\ new[k].url # <<>>
                  /\ new[k].url \in LinkUrls(hyperlinks)
                  /\ new[k].label = label_url(new[k].url)
                  /\ \A j \in 1..(k - 1) : new[j].url # new[k].url
            /\ \A u \in UrlsOf(old) : ProfilesWithUrl(new, u) = ProfilesWithUrl(old, u)
            /\ \A u \in LinkUrls(hyperlinks) \ {<<>>} : u \in UrlsOf(new)
            /\ \A f \in ResumeFields \ {"online_profiles"} : ret.value[f] = ret.extracted[f]

\* a record whose profiles hold the LinkedIn URL is merged with the LinkedIn
\* link and the GitHub link: the first is skipped, the second is appended
C8_Witness ==
    /\ ret.fn = "upload_resume"
    /\ L_linkedin_url \in UrlsOf(ret.extracted.online_profiles)
    /\ Len(hyperlinks) = 2
    /\ hyperlinks[1][2] = L_linkedin_url
    /\ hyperlinks[2][2] = L_github_url
    /\ Len(ret.value.online_profiles) = Len(ret.extracted.online_profiles) + 1

-----------------------------------------------------------------------------
(* Properties of the extractors (SpecFunctions).                           *)

\* how many times the line l occurs among the lines of the string s
Occurrences(l, s) ==
    LET ls == SplitNewline(s) IN Cardinality({i \in DOMAIN ls : ls[i] = l})

RECURSIVE SumOver(_, _)
SumOver(f, S) ==
    IF S = {} THEN 0
    ELSE LET x == CHOOSE y \in S : TRUE IN f[x] + SumOver(f, S \ {x})

\* the section of line i of lines: that of the most recent header at or
\* before it, contact when there is none
SectionOfLine(lines, i) ==
    LET headers == {j \in 1..i : DetectedSection(lines[j]) # ""}
    IN  IF headers = {} THEN "contact" ELSE DetectedSection(lines[Max(headers)])

\* C3: split_resume_by_sections puts every line in exactly one section, that
\* of the most recent header before it (contact before any header), also when
\* a header of one section occurs more than once: every non-empty line of the
\* text is among the lines of its section, and the sections together hold
\* every non-empty line as many times as the text does.
C3_SectionsPartitionTheLines ==
    ret.fn = "split_resume_by_sections" =>
        LET lines == SplitNewline(text)
            held == UNION {Range(SplitNewline(ret.value[sec])) : sec \in SectionNames}
        IN  /\ \A i \in DOMAIN lines :
                  lines[i] # <<>> =>
                      Occurrences(lines[i], ret.value[SectionOfLine(lines, i)]) > 0
            /\ \A l \in (Range(lines) \cup held) \ {<<>>} :
                  SumOver([sec \in SectionNames |-> Occurrences(l, ret.value[sec])],
                          SectionNames) = Occurrences(l, text)

\* C6: the name extracted from the lines "John Smith", "Software Engineer",
\* "john@x.com" is "John Smith"; in general the job title on the line after
\* the name is not appended to it.
C6_JobTitleIsNotAppended ==
    (/\ ret.fn = "extract_name_robust"
     /\ StartsWith(text, L_John_Smith \o <<"\n">> \o L_Software_Engineer)) =>
        ret.value = L_John_Smith

\* the term occurs in s at p and is no part of a longer word there: a word
\* character of the term's ends has no word character next to it
DelimitedAt(s, term, p) ==
    LET q == p + Len(term) - 1
    IN  /\ p >= 1
        /\ q <= Len(s)
        /\ SubSeq(s, p, q) = term
        /\ ~(IsWordChar(term[1]) /\ p > 1 /\ IsWordChar(s[p - 1]))
        /\ ~(IsWordChar(term[Len(term)]) /\ q < Len(s) /\ IsWordChar(s[q + 1]))

S_javascript == <<"j","a","v","a","s","c","r","i","p","t">>

\* C9: the skills extracted from a text are terms of TECH_WORDS in ascending
\* order without duplicates, each of which occurs in the lowercased text
\* delimited and not as a part of a longer word; "javascript developer"
\* gives javascript and not java.
C9_SkillsAreBoundarySafe ==
    ret.fn = "extract_skills_from_text" =>
        /\ IsSortedStrict(ret.value)
        /\ \A k \in DOMAIN ret.value :
              /\ ret.value[k] \in Range(TECH_WORDS)
              /\ \E p \in 1..Len(text) : DelimitedAt(Lower(text), ret.value[k], p)
        /\ text = L_javascript_developer => ret.value = <<S_javascript>>

\* the skills of "javascript developer" have been extracted
C9_Witness ==
    /\ ret.fn = "extract_skills_from_text"
    /\ text = L_javascript_developer
    /\ S_javascript \in Range(ret.value)
    /\ L_java \notin Range(ret.value)

\* C10: the skills of a job description are recognized with the vocabulary of
\* the resume skill extraction: the terms that extract_skills_from_text finds
\* in a text are the terms analyze_resume_vs_jd finds in the job description
\* with that text, which are its matched and its missing skills together.
C10_JobSkillsUseTheSameVocabulary ==
    ret.fn = "analyze_resume_vs_jd" =>
        Range(extract_skills_from_text(text)) =
            Range(ret.value.matched_skills) \cup Range(ret.value.missing_skills)

-----------------------------------------------------------------------------
(* Properties of the scorer (SpecScore).                                   *)

LoweredSkills(skills) == {Lower(skills[i]) : i \in DOMAIN skills}

\* C4: matched and missing are in ascending order; every matched skill is,
\* case aside, a skill of the resume and of the job; the missing skills are
\* exactly the skills of the job that, case aside, the resume lacks; and no
\* skill is both matched and missing.
C4_MatchedAndMissing ==
    ret.fn = "compute_compatibility" =>
        LET R == LoweredSkills(resume_skills)
            J == LoweredSkills(jd_skills)
            matched == ret.value.matched
            missing == ret.value.missing
        IN  /\ IsSortedStrict(matched)
            /\ IsSortedStrict(missing)
            /\ Range(matched) \subseteq R \cap J
            /\ Range(missing) = J \ R
            /\ Range(matched) \cap Range(missing) = {}

\* a resume skill written in another case than the job's is matched, and a
\* job skill given in two cases is missing once
C4_Witness ==
    /\ ret.fn = "compute_compatibility"
    /\ resume_skills = <<S_Python, S_AWS>>
    /\ jd_skills = <<S_sql, S_SQL, S_python>>
    /\ ret.value.matched = <<S_python>>
    /\ ret.value.missing = <<S_sql>>

\* C5: the score, in hundredths, is the hundredth nearest to
\* 10 * |matched| / max(1, |job skills|), the job skills counted once each
\* case aside; it lies between 0 and 10; it is 0 for no job skills; and
\* [Python, SQL, AWS] against [python, docker, sql] scores 6.67 with matched
\* [python, sql] and missing [docker].
C5_ScoreFormula ==
    ret.fn = "compute_compatibility" =>
        LET J == LoweredSkills(jd_skills)
            d == IF Cardinality(J) >= 1 THEN Cardinality(J) ELSE 1
            m == Len(ret.value.matched)
            score == ret.value.score
            off == 1000 * m - score * d
        IN  /\ score \in Int
            /\ 2 * off <= d
            /\ 2 * off >= 0 - d
            /\ 0 <= score
            /\ score <= 1000
            /\ jd_skills = <<>> => score = 0
            /\ (resume_skills = <<S_Python, S_SQL, S_AWS>>
                    /\ jd_skills = <<S_python, S_docker, S_sql>>) =>
                  ret.value = [score |-> 667, matched |-> <<S_python, S_sql>>,
                               missing |-> <<S_docker>>]

\* the example of the score has been computed
C5_Witness ==
    /\ ret.fn = "compute_compatibility"
    /\ resume_skills = <<S_Python, S_SQL, S_AWS>>
    /\ jd_skills = <<S_python, S_docker, S_sql>>
    /\ ret.value.score = 667

-----------------------------------------------------------------------------
(* Properties of the analysis route (SpecAnalyze).                         *)

\* C11: irrelevant_content is the resume skills the job does not seek, in the
\* order and the case of resume.skills, a skill being sought when, case aside,
\* it is a skill of the job: no resume skill that, case aside, is among the
\* matched skills is reported as irrelevant.
C11_IrrelevantIsCaseInsensitive ==
    ret.fn = "analyze_resume_vs_jd" =>
        LET sought == Range(ret.value.matched_skills) \cup Range(ret.value.missing_skills)
        IN  /\ ret.value.irrelevant_content =
                   SelectSeq(resume_skills, LAMBDA sk : Lower(sk) \notin sought)
            /\ \A k \in DOMAIN ret.value.irrelevant_content :
                   Lower(ret.value.irrelevant_content[k]) \notin Range(ret.value.matched_skills)

\* C17: the result of analyze_resume_vs_jd has a suggestions mapping with
\* exactly the keys add and remove; add is the list of the missing skills of
\* the same result and remove is the empty list.
C17_Suggestions ==
    ret.fn = "analyze_resume_vs_jd" =>
        /\ DOMAIN ret.value.suggestions = {"add", "remove"}
        /\ ret.value.suggestions.add = ret.value.missing_skills
        /\ ret.value.suggestions.remove = <<>>

\* a resume with Python has been analysed against "python docker sql": docker
\* and sql are missing and are the skills to add
C17_Witness ==
    /\ ret.fn = "analyze_resume_vs_jd"
    /\ resume_skills = <<S_Python>>
    /\ jd.description = D_python_docker_sql
    /\ ret.value.matched_skills = <<S_python>>
    /\ ret.value.suggestions.add = <<S_docker, S_sql>>

-----------------------------------------------------------------------------
(* Properties of concurrent calls (SpecConcurrent).                        *)

\* C12: two extract_resume_info calls on different texts share no state: in
\* every interleaving, once both calls have ended, each has returned what it
\* returns when it runs alone, and each call that has returned a record has
\* left what it leaves when it runs alone, a report of its own in ./results
\* that holds its report and nothing else.
C12_ConcurrentCallsAreIndependent ==
    (\A c \in CallIds : calls[c].pc = "done") =>
        \A c \in CallIds :
            /\ calls[c].ret.raised = BuildResume(calls[c].text).raised
            /\ calls[c].ret.value = BuildResume(calls[c].text).value
            /\ calls[c].ret.raised = "" =>
                  /\ calls[c].filename \in DOMAIN files
                  /\ files[calls[c].filename] = << <<c, 1, calls[c].size>> >>

-----------------------------------------------------------------------------
(* Properties of the rest of the upload handler (Spec).                    *)

\* C13: in upload_resume a failure of the LLM analysis (no API key, an error
\* of the API call, a reply that cannot be read) is caught: the handler
\* completes and renders the resume record as it was after the merge, with no
\* analysis and with an analysis error message that is not empty; and without
\* a job-description text the analysis is not invoked.
C13_AnalysisFailureIsCaught ==
    /\ [](ret.fn = "TemplateResponse" =>
            /\ ret.raised = ""
            /\ ret.llm_raised # "" =>
                  /\ ret.invoked
                  /\ ret.analysis = None
                  /\ ret.groq_error # None
                  /\ Len(ret.groq_error) > 0
                  /\ \A k \in DOMAIN ret.groq_error : ret.groq_error[k] # ""
            /\ jd.description = <<>> =>
                  /\ ~ret.invoked
                  /\ ret.analysis = None
                  /\ ret.groq_error = None)
    /\ [][RenderResult => ret'.resume = ret.value]_vars

\* the handler has rendered an upload whose analysis raised for want of a key
C13_Witness ==
    /\ ret.fn = "TemplateResponse"
    /\ jd.description = D_aws
    /\ ret.invoked
    /\ ret.llm_raised = "ValueError"
    /\ ret.analysis = None
    /\ ret.groq_error = <<S_Analysis_Error, "ValueError", S_Please_ensure>>

-----------------------------------------------------------------------------
(* Properties of profile extraction (SpecProfiles).                        *)

\* the keywords in the order of their priority, each with its label
KeywordPriority == <<
    <<<<"l","i","n","k","e","d","i","n">>, <<"L","i","n","k","e","d","I","n">>>>,
    <<<<"g","i","t","h","u","b">>, <<"G","i","t","H","u","b">>>>,
    <<<<"p","o","r","t","f","o","l","i","o">>, <<"P","o","r","t","f","o","l","i","o">>>>,
    <<<<"m","e","d","i","u","m">>, <<"M","e","d","i","u","m">>>>,
    <<<<"k","a","g","g","l","e">>, <<"K","a","g","g","l","e">>>>,
    <<<<"l","e","e","t","c","o","d","e">>, <<"L","e","e","t","C","o","d","e">>>>,
    <<<<"c","o","d","e","f","o","r","c","e","s">>, <<"C","o","d","e","f","o","r","c","e","s">>>>,
    <<<<"g","i","t","l","a","b">>, <<"G","i","t","L","a","b">>>>,
    <<<<"b","i","t","b","u","c","k","e","t">>, <<"B","i","t","b","u","c","k","e","t">>>> >>

LabelByPriority(url) ==
    LET hits == {k \in DOMAIN KeywordPriority : Contains(Lower(url), KeywordPriority[k][1])}
    IN  IF hits = {} THEN <<"W","e","b","s","i","t","e">>
        ELSE KeywordPriority[CHOOSE k \in hits : \A h \in hits : k <= h][2]

\* a URL begins at p: http:// or https://, then a character that is no space
UrlBeginsAt(s, p) ==
    \E scheme \in {<<"h","t","t","p",":","/","/">>, <<"h","t","t","p","s",":","/","/">>} :
        /\ p + Len(scheme) <= Len(s)
        /\ SubSeq(s, p, p + Len(scheme) - 1) = scheme
        /\ ~IsSpace(s[p + Len(scheme)])

\* the URL occurrences of s from position i on, from left to right, each
\* reaching to the next space or to the end
RECURSIVE UrlOccurrences(_, _)
UrlOccurrences(s, i) ==
    LET begins == {p \in i..Len(s) : UrlBeginsAt(s, p)}
    IN  IF begins = {} THEN <<>>
        ELSE LET p == CHOOSE b \in begins : \A c \in begins : b <= c
                 stops == {q \in p..Len(s) : IsSpace(s[q])}
                 e == IF stops = {} THEN Len(s) + 1
                      ELSE CHOOSE q \in stops : \A r \in stops : q <= r
             IN  <<SubSeq(s, p, e - 1)>> \o UrlOccurrences(s, e)

\* C14: profile extraction returns one profile for every URL occurrence of
\* the text, in the order of the text and with repeated URLs kept, each
\* labelled with the label of the first of linkedin, github, portfolio,
\* medium, kaggle, leetcode, codeforces, gitlab, bitbucket that occurs in the
\* lowercased URL, Website when none does; https://github.com/jdoe alone
\* gives one profile, labelled GitHub.
C14_ProfilesPerUrlOccurrence ==
    ret.fn = "extract_profiles_from_text" =>
        LET urls == UrlOccurrences(text, 1)
        IN  /\ Len(ret.value) = Len(urls)
            /\ \A k \in DOMAIN urls :
                  /\ ret.value[k].url = urls[k]
                  /\ ret.value[k].label = LabelByPriority(urls[k])
            /\ text = L_github_url =>
                  ret.value = <<[label |-> <<"G","i","t","H","u","b">>, url |-> L_github_url]>>

\* a line with two URLs, the first with gitlab and github in it, and the
\* GitHub URL on two lines: four profiles, the repeated URL twice
C14_Witness ==
    /\ ret.fn = "extract_profiles_from_text"
    /\ text = P_two_urls \o <<"\n">> \o L_github_url \o <<"\n">> \o L_github_url
    /\ Len(ret.value) = 4
    /\ ret.value[1].label = <<"G","i","t","H","u","b">>
    /\ ret.value[2].label = <<"W","e","b","s","i","t","e">>
    /\ ret.value[3] = ret.value[4]

-----------------------------------------------------------------------------
(* Properties of achievement extraction (SpecAchievements).                *)

\* the bullet glyph, and the characters of a leading marker
BulletGlyph == <<"U+2022">>
MarkerChars == {"U+2022", "-", ".", " "} \cup DigitChars

\* a line begins with a bullet glyph, with a hyphen, or with a digit that has
\* a period within the first 3 characters of the line
BeginsWithMarker(line) ==
    \/ StartsWith(line, BulletGlyph)
    \/ StartsWith(line, <<"-">>)
    \/ /\ line # <<>>
       /\ IsDigit(line[1])
       /\ \E k \in 1..Min({3, Len(line)}) : line[k] = "."

\* the line without its leading marker characters, trimmed
WithoutMarker(line) ==
    LET rest == {k \in DOMAIN line : line[k] \notin MarkerChars}
    IN  IF rest = {} THEN <<>> ELSE Strip(SubSeq(line, Min(rest), Len(line)))

\* the achievements of the lines: the kept lines in their order
KeptAchievements(lines) ==
    LET trimmed == [k \in DOMAIN lines |-> Strip(lines[k])]
        kept == SelectSeq(trimmed, LAMBDA l : BeginsWithMarker(l) /\ Len(WithoutMarker(l)) > 10)
    IN  [k \in DOMAIN kept |-> Prefix(WithoutMarker(kept[k]), 200)]

\* C15: achievement extraction keeps a line exactly when it begins with a
\* bullet glyph, a hyphen, or a digit with a period within its first 3
\* characters and is, without its leading marker characters and trimmed,
\* longer than 10 characters; the kept achievements are cut to 200
\* characters, are in the order of the text and are at most 10; the line
\* "- Won first place in hackathon 2023" gives "Won first place in hackathon
\* 2023".
C15_AchievementRule ==
    ret.fn = "extract_achievements_from_text" =>
        /\ ret.raised = ""
        /\ ret.value = Prefix(KeptAchievements(SplitNewline(text)), 10)
        /\ text = L_Won => ret.value = <<<<"W","o","n"," ","f","i","r","s","t"," ","p","l","a","c","e"," ","i","n"," ","h","a","c","k","a","t","h","o","n"," ","2","0","2","3">>>>

-----------------------------------------------------------------------------
(* Properties of the record that extract_resume_info returns (SpecRecord). *)

IsStr(x) == x \in Seq(Chars)

Returned == ret.fn = "extract_resume_info" /\ ret.raised = ""

\* C16: every record that extract_resume_info returns has every field: the
\* name is never empty (it is "NOT EXTRACTED" when no name was found), the
\* email and the phone are strings, the experience summary is None or a
\* non-empty string, and the achievements are None or a non-empty list of at
\* most 10.
C16_RecordIsFullyPopulated ==
    Returned =>
        /\ DOMAIN ret.value = ResumeFields
        /\ IsStr(ret.value.name) /\ ret.value.name # <<>>
        /\ extract_name_robust(text) = <<>> => ret.value.name = S_NOT_EXTRACTED
        /\ IsStr(ret.value.email) /\ IsStr(ret.value.phone)
        /\ \/ ret.value.experience_summary = None
           \/ IsStr(ret.value.experience_summary) /\ ret.value.experience_summary # <<>>
        /\ \/ ret.value.achievements = None
           \/ /\ Len(ret.value.achievements) \in 1..10
              /\ \A k \in DOMAIN ret.value.achievements : IsStr(ret.value.achievements[k])

\* a record with the name's sentinel, a summary and achievements is returned
C16_Witness ==
    /\ Returned
    /\ ret.value.name = S_NOT_EXTRACTED
    /\ ret.value.experience_summary # None
    /\ ret.value.achievements # None

\* the text an extractor of a section works on: the section when it was
\* found, the whole text when the section is absent or empty
SectionOrText(name) ==
    LET section == split_resume_by_sections(text)[name]
    IN  IF Strip(section) # <<>> THEN section ELSE text

\* C18: in extract_resume_info the extraction of the projects and of the
\* achievements works on the projects and the achievements section when the
\* section was found, and on the whole text when the section is absent or
\* empty.
C18_SectionOrWholeText ==
    ret.fn = "extract_resume_info" =>
        LET achievements == extract_achievements_from_text(SectionOrText("achievements"))
        IN  /\ ret.raised = "" =>
                   ret.value.projects = extract_projects_from_text(SectionOrText("projects"))
            /\ achievements.raised = "" =>
                   /\ ret.raised = ""
                   /\ ret.value.achievements =
                          IF achievements.value # <<>> THEN achievements.value ELSE None

\* the substantial lines of the text: trimmed, longer than 20 characters
SubstantialLines ==
    LET lines == SplitNewline(text)
    IN  SelectSeq([k \in DOMAIN lines |-> Strip(lines[k])], LAMBDA l : Len(l) > 20)

\* C19: when the summary section is empty and the text has at least two
\* substantial lines (trimmed length over 20), the experience summary is the
\* second substantial line cut to 300 characters; when the summary section
\* is not empty, it is the trimmed content of the section.
C19_ExperienceSummary ==
    Returned =>
        LET summary == Strip(split_resume_by_sections(text)["summary"])
        IN  /\ summary # <<>> => ret.value.experience_summary = summary
            /\ (summary = <<>> /\ Len(SubstantialLines) >= 2) =>
                   ret.value.experience_summary = Prefix(SubstantialLines[2], 300)

-----------------------------------------------------------------------------
(* Properties of the segmenter (SpecSections).                             *)

FixedOrder == <<"contact", "summary", "education", "experience", "projects", "skills",
                "achievements">>

\* the lowercased text of the line contains a keyword of the section
HasKeywordOf(line, section) ==
    \E k \in DOMAIN KeywordsOf(section) : Contains(Lower(line), KeywordsOf(section)[k])

\* the line is a header: it contains a colon or ends, lowercased and trimmed,
\* with the letter s, and it contains a keyword of some section
IsHeader(line) ==
    /\ Contains(line, <<":">>) \/ EndsWith(Strip(Lower(line)), <<"s">>)
    /\ \E k \in DOMAIN FixedOrder : HasKeywordOf(line, FixedOrder[k])

\* the section a header switches to: the first of the fixed order with a
\* keyword in the line
HeaderSection(line) ==
    FixedOrder[Min({k \in DOMAIN FixedOrder : HasKeywordOf(line, FixedOrder[k])})]

\* the runs of the lines: a run starts at a header (at 0 before any header)
\* and ends before the next header
RunStarts(lines) == {0} \cup {i \in DOMAIN lines : IsHeader(lines[i])}
RunSection(lines, h) == IF h = 0 THEN "contact" ELSE HeaderSection(lines[h])
RunEnd(lines, h) ==
    LET later == {i \in RunStarts(lines) : i > h}
    IN  IF later = {} THEN Len(lines) ELSE Min(later) - 1
RunContent(lines, h) ==
    Strip(Join(SubSeq(lines, Max({h, 1}), RunEnd(lines, h)), <<"\n">>))

\* C20: in split_resume_by_sections a line switches the current section
\* exactly when it contains a colon or ends (lowercased, trimmed) with the
\* letter s and its lowercased text contains a keyword of some section; the
\* new section is the first of contact, summary, education, experience,
\* projects, skills, achievements with a keyword in the line; the header line
\* is the first line of the content of the new section and a line that is not
\* a header stays in the current section: the content of a section is its
\* latest run of lines, from its header to the line before the next header.
\* The mapping returned has the seven section names and "other", and "other"
\* is empty.
C20_HeadersSwitchSections ==
    ret.fn = "split_resume_by_sections" =>
        LET lines == SplitNewline(text)
        IN  /\ DOMAIN ret.value = Range(FixedOrder) \cup {"other"}
            /\ ret.value["other"] = <<>>
            /\ \A k \in DOMAIN FixedOrder :
                  LET runs == {h \in RunStarts(lines) : RunSection(lines, h) = FixedOrder[k]}
                  IN  ret.value[FixedOrder[k]] =
                          IF runs = {} THEN <<>> ELSE RunContent(lines, Max(runs))

\* a text whose first line is a header with keywords of two sections, with a
\* line that is no header after it and the header of another section last
C20_Witness ==
    /\ ret.fn = "split_resume_by_sections"
    /\ text = Join(<<H_Technical_projects, L_java, L_Skills>>, <<"\n">>)
    /\ ret.value["projects"] = Join(<<H_Technical_projects, L_java>>, <<"\n">>)
    /\ ret.value["skills"] = L_Skills

-----------------------------------------------------------------------------
(* Properties of the name extraction (SpecName).                           *)

\* the lines of the text that are not blank, without the blank lines between
RECURSIVE NonBlankLines(_, _)
NonBlankLines(lines, i) ==
    IF i > Len(lines) THEN <<>>
    ELSE IF Strip(lines[i]) = <<>> THEN NonBlankLines(lines, i + 1)
    ELSE <<Strip(lines[i])>> \o NonBlankLines(lines, i + 1)

\* the name candidates among the first 15 non-blank lines of the text
NameCandidates ==
    LET lines == NonBlankLines(SplitLines(text), 1)
        considered == {i \in DOMAIN lines : i <= 15 /\ IsNameCandidate(lines[i])}
    IN  [k \in 1..Cardinality(considered) |->
            lines[CHOOSE i \in considered : Cardinality({j \in considered : j < i}) = k - 1]]

WordCount(s) == Len(SplitWs(s))

\* C21: extract_name_robust considers only the first 15 non-blank lines; when
\* there are at least two name candidates, the first two have at most 3 words
\* each and the first, a space and the second have at most 5 words together,
\* it returns the two joined by a space, title-cased; otherwise it returns
\* the first candidate title-cased; with no candidate it returns the empty
\* string.
C21_NameRule ==
    ret.fn = "extract_name_robust" =>
        ret.value =
            IF Len(NameCandidates) = 0 THEN <<>>
            ELSE IF /\ Len(NameCandidates) >= 2
                    /\ WordCount(NameCandidates[1]) <= 3
                    /\ WordCount(NameCandidates[2]) <= 3
                    /\ WordCount(NameCandidates[1] \o <<" ">> \o NameCandidates[2]) <= 5
                 THEN Title(NameCandidates[1] \o <<" ">> \o NameCandidates[2])
                 ELSE Title(NameCandidates[1])

\* the name is on line 15 and a second candidate on line 16, which is not
\* considered: the name alone is returned
C21_Witness ==
    /\ ret.fn = "extract_name_robust"
    /\ text = Join(<<N_fourteen_lines, L_John_Smith, L_Software_Engineer>>, <<"\n">>)
    /\ ret.value = L_John_Smith

=============================================================================
